---- MODULE Spec2Model ----
(***************************************************************************)
(* A state-machine model of the campaign planner/executioner:              *)
(*   src/src/calendar_manager.py   CampaignEvent, CampaignCalendar         *)
(*   src/src/campaign_executor.py  SocialMediaSimulator, CampaignExecutor  *)
(*   src/src/orchestrator.py       CampaignOrchestrator                    *)
(*                                                                         *)
(* Representation of Python values:                                        *)
(*   - campaign ids and titles are strings built by concatenation, so they *)
(*     are sequences of one-character strings;                             *)
(*   - a timestamp string is a sequence of character codes, because the    *)
(*     code both parses it (datetime.fromisoformat) and orders it as text  *)
(*     (sorted(key=lambda x: x.scheduled_time));                           *)
(*   - a datetime is an integer number of ticks, Day ticks to the day;     *)
(*   - a dict is a function; the empty dict is the function of empty       *)
(*     domain; a list is a sequence; an object reference held in a list    *)
(*     returned by the calendar is the position of the event in            *)
(*     calendar.events;                                                    *)
(*   - calendar.events is a list of references: events[k] is the value of  *)
(*     the object at position k and refs[k] its identity, so two positions *)
(*     of the same identity are one object and always hold one value;      *)
(*   - a float is a binary64 number, held exactly and rounded as the       *)
(*     hardware rounds it; an int of 64 bits is held in decimal.           *)
(***************************************************************************)
EXTENDS Integers, Sequences, FiniteSets, TLC

VARIABLES
    events,              \* CampaignCalendar.events: the value of each element
    refs,                \* the identity of the object each element refers to
    executed_campaigns,  \* SocialMediaSimulator.executed_campaigns
    now,                 \* the wall clock read by datetime.now()
    hashes,              \* the values hash() has returned in this process
    execution_log,       \* CampaignExecutor.execution_log
    campaigns,           \* CampaignOrchestrator.campaigns
    frame,               \* run_complete_workflow: its position and its locals
    use_ai,              \* PerformanceAnalyzer.use_ai and CampaignPlanner.use_ai
    ret                  \* the last call: its name, arguments and result

vars == <<events, refs, executed_campaigns, now, hashes, execution_log, campaigns,
          frame, use_ai, ret>>

(***************************************************************************)
(* Bounds of the model.                                                    *)
(***************************************************************************)
\* the clock runs from 0 to MaxNow ticks
MaxNow == 2
\* events the calendar may hold where calls are interleaved freely
MaxEvents == 2
\* events the calendar may hold before a call, where scheduling is studied
MaxBefore == 1
\* records the simulator history may hold
MaxPosts == 2
\* events and posts the calendar and the history may hold between them when
\* the end-to-end workflow is called
MaxFlow == 1

\* timedelta(days=1) in ticks of the clock
Day == 2

(***************************************************************************)
(* Strings.                                                                *)
(***************************************************************************)
Digits == <<"0", "1", "2", "3", "4", "5", "6", "7", "8", "9">>

\* str(i) for 0 <= i <= 9, as used by the f-strings
Str(i) == <<Digits[i + 1]>>

\* s[:n]
Prefix(s, n) == SubSeq(s, 1, IF Len(s) < n THEN Len(s) ELSE n)

\* character codes: "0" is 48, "T" is 84, " " is 32
\* text order of two strings of character codes: a < b
RECURSIVE StrLess(_, _)
StrLess(a, b) ==
    IF b = <<>> THEN FALSE
    ELSE IF a = <<>> THEN TRUE
    ELSE IF Head(a) # Head(b) THEN Head(a) < Head(b)
    ELSE StrLess(Tail(a), Tail(b))

(***************************************************************************)
(* datetime: parsing and formatting of timestamps.  A timestamp text is    *)
(* "DD", "DDTh" or "DD h": a two-digit day number, then optionally a       *)
(* separator and the tick within the day.  fromisoformat accepts a date    *)
(* alone and any separator; isoformat always writes the "T" form.          *)
(***************************************************************************)
DayOf(s) == 10 * (s[1] - 48) + (s[2] - 48)

fromisoformat(s) ==
    IF Len(s) = 2 THEN DayOf(s) * Day
    ELSE DayOf(s) * Day + (s[4] - 48)

isoformat(t) ==
    <<48 + ((t \div Day) \div 10), 48 + ((t \div Day) % 10),
      84, 48 + (t % Day)>>

\* strftime('%Y-%m-%d %H:%M')
strftime(t) ==
    <<48 + ((t \div Day) \div 10), 48 + ((t \div Day) % 10),
      32, 48 + (t % Day)>>

\* timedelta(days=n), timedelta(weeks=n)
timedelta_days(n) == n * Day
timedelta_weeks(n) == 7 * n * Day

(***************************************************************************)
(* int: an integer of 64 bits, as hash() returns, is [negative, digits]:   *)
(* its sign, and its magnitude written in decimal, four digits to the      *)
(* element, the most significant first.                                    *)
(***************************************************************************)
Int64(negative, digits) == [negative |-> negative, digits |-> digits]

\* (acc * 10000^Len(digits) + the number digits write) modulo b, 0 < b <= 10000
RECURSIVE Residue(_, _, _)
Residue(digits, b, acc) ==
    IF digits = <<>> THEN acc
    ELSE Residue(Tail(digits), b, (acc * 10000 + Head(digits)) % b)

\* a remainder that takes the sign of the dividend, as C's % does
PyMod_truncating(a, b) ==
    IF a.negative THEN 0 - Residue(a.digits, b, 0) ELSE Residue(a.digits, b, 0)

\* Python's a % b for b > 0: the result has the sign of the divisor
PyMod(a, b) ==
    LET r == Residue(a.digits, b, 0)
    IN  IF a.negative /\ r # 0 THEN b - r ELSE r

(***************************************************************************)
(* str.__hash__: the hash of a text is computed from the text and a key    *)
(* drawn when the process starts.  Within a process the same text always   *)
(* has the same hash; the text alone does not determine it, and the hashes *)
(* of two texts are unrelated.  hashes holds the values hash() has         *)
(* returned so far in this process; the hash of a text not hashed before   *)
(* is an input of the call that computes it.                               *)
(***************************************************************************)
\* hash(s), for a text hashed before
hash(s) == hashes[s]

\* the values of hash() after a call that hashes the texts of DOMAIN fresh:
\* a text hashed before keeps its value
Hashed(table, fresh) == table @@ fresh

(***************************************************************************)
(* CampaignEvent.                                                          *)
(***************************************************************************)
EmptyDict == [k \in {} |-> 0]

\* the value None of the argument performance_metrics: a dict no caller passes
NoMetrics == [None |-> 0]

\* the dataclass with its __post_init__: status is any text the caller gives
\* ("Scheduled" when the caller gives none), and performance_metrics the
\* dict the caller gives, a new empty dict when it is None (the default)
CampaignEvent(campaign_id, platform, title, content, scheduled_time, status, performance_metrics) ==
    [campaign_id |-> campaign_id, platform |-> platform, title |-> title,
     content |-> content, scheduled_time |-> scheduled_time,
     status |-> status,
     performance_metrics |-> IF performance_metrics = NoMetrics THEN EmptyDict
                             ELSE performance_metrics]

\* dict.get(key, default)
Get(d, k, default) == IF k \in DOMAIN d THEN d[k] ELSE default

(***************************************************************************)
(* Sorting: sorted(xs, key=lambda x: x.scheduled_time) is a stable sort on *)
(* the text of the timestamp.  The lists sorted hold references to events, *)
(* here positions in evs.                                                  *)
(***************************************************************************)
\* i goes before j: its key is the smaller text, or the keys are equal and
\* it came first
Before(evs, i, j) ==
    \/ StrLess(evs[i].scheduled_time, evs[j].scheduled_time)
    \/ /\ ~StrLess(evs[j].scheduled_time, evs[i].scheduled_time)
       /\ i < j

\* idx is increasing, so Before orders its members completely and the sorted
\* list is the one the stable sort of the code gives
SortedByKey(evs, idx) == SortSeq(idx, LAMBDA i, j : Before(evs, i, j))

\* [i for i in 1..Len(evs) if lo <= fromisoformat(evs[i].scheduled_time) <= hi]
RECURSIVE InRange(_, _, _, _)
InRange(evs, lo, hi, i) ==
    IF i > Len(evs) THEN <<>>
    ELSE (IF lo <= fromisoformat(evs[i].scheduled_time)
             /\ fromisoformat(evs[i].scheduled_time) <= hi
          THEN <<i>> ELSE <<>>) \o InRange(evs, lo, hi, i + 1)

(***************************************************************************)
(* CampaignCalendar.schedule_campaign_across_platforms: the events one     *)
(* platform expands to, then the whole list in creation order.  The events *)
(* are constructed without status and performance_metrics, which take      *)
(* their defaults.                                                         *)
(***************************************************************************)
\* a daily event whose time is one day ahead of its index
DayEvent_shifted(campaign_id, campaign_title, platform, content, start, i) ==
    CampaignEvent(campaign_id \o <<"_", "d", "a", "y">> \o Str(i + 1),
                  platform,
                  campaign_title \o <<" ", "-", " ", "D", "a", "y", " ">> \o Str(i + 1),
                  content,
                  isoformat(start + timedelta_days(i + 1)),
                  "Scheduled", NoMetrics)

DayEvent(campaign_id, campaign_title, platform, content, start, i) ==
    CampaignEvent(campaign_id \o <<"_", "d", "a", "y">> \o Str(i + 1),
                  platform,
                  campaign_title \o <<" ", "-", " ", "D", "a", "y", " ">> \o Str(i + 1),
                  content,
                  isoformat(start + timedelta_days(i)),
                  "Scheduled", NoMetrics)

WeekEvent(campaign_id, campaign_title, platform, content, start, i) ==
    CampaignEvent(campaign_id \o <<"_", "w", "e", "e", "k">> \o Str(i + 1),
                  platform,
                  campaign_title \o <<" ", "-", " ", "W", "e", "e", "k", " ">> \o Str(i + 1),
                  content,
                  isoformat(start + timedelta_weeks(i)),
                  "Scheduled", NoMetrics)

\* an expansion that schedules six days of the week
PlatformEvents_six_days(campaign_id, campaign_title, platform, content, start, frequency) ==
    CASE frequency = "once" ->
           <<CampaignEvent(campaign_id, platform, campaign_title, content,
                           isoformat(start), "Scheduled", NoMetrics)>>
      [] frequency = "daily" ->
           [k \in 1..6 |->
               DayEvent(campaign_id, campaign_title, platform, content, start, k - 1)]
      [] frequency = "weekly" ->
           [k \in 1..4 |->
               WeekEvent(campaign_id, campaign_title, platform, content, start, k - 1)]
      [] OTHER -> <<>>

\* an expansion that schedules five weeks
PlatformEvents_five_weeks(campaign_id, campaign_title, platform, content, start, frequency) ==
    CASE frequency = "once" ->
           <<CampaignEvent(campaign_id, platform, campaign_title, content,
                           isoformat(start), "Scheduled", NoMetrics)>>
      [] frequency = "daily" ->
           [k \in 1..7 |->
               DayEvent(campaign_id, campaign_title, platform, content, start, k - 1)]
      [] frequency = "weekly" ->
           [k \in 1..5 |->
               WeekEvent(campaign_id, campaign_title, platform, content, start, k - 1)]
      [] OTHER -> <<>>

PlatformEvents(campaign_id, campaign_title, platform, content, start, frequency) ==
    CASE frequency = "once" ->
           <<CampaignEvent(campaign_id, platform, campaign_title, content,
                           isoformat(start), "Scheduled", NoMetrics)>>
      [] frequency = "daily" ->
           [k \in 1..7 |->
               DayEvent(campaign_id, campaign_title, platform, content, start, k - 1)]
      [] frequency = "weekly" ->
           [k \in 1..4 |->
               WeekEvent(campaign_id, campaign_title, platform, content, start, k - 1)]
      [] OTHER -> <<>>

RECURSIVE ScheduledEvents(_, _, _, _, _, _)
ScheduledEvents(campaign_id, campaign_title, platforms, content_per_platform, start_date, frequency) ==
    IF platforms = <<>> THEN <<>>
    ELSE PlatformEvents(campaign_id, campaign_title, Head(platforms),
                        Get(content_per_platform, Head(platforms), <<>>),
                        fromisoformat(start_date), frequency)
         \o ScheduledEvents(campaign_id, campaign_title, Tail(platforms),
                            content_per_platform, start_date, frequency)

(***************************************************************************)
(* CampaignCalendar.execute_event: the metrics attached to an event.       *)
(***************************************************************************)
\* h is the value of hash(event.campaign_id)
EventMetrics(h) ==
    [reach       |-> 5000 + PyMod(h, 10000),
     engagement  |-> 250 + PyMod(h, 1000),
     clicks      |-> 50 + PyMod(h, 500),
     conversions |-> 5 + PyMod(h, 50)]

\* an execute_event that forgets the metrics
Executed_status_only(ev, h) == [ev EXCEPT !.status = "Executed"]

\* an execute_event that puts an event executed before back to Scheduled
Executed_toggles(ev, h) ==
    IF ev.status = "Executed"
    THEN [ev EXCEPT !.status = "Scheduled", !.performance_metrics = EmptyDict]
    ELSE [ev EXCEPT !.status = "Executed",
                    !.performance_metrics = EventMetrics(h)]

\* the event after execute_event, h the value of hash(event.campaign_id)
Executed(ev, h) ==
    [ev EXCEPT !.status = "Executed",
               !.performance_metrics = EventMetrics(h)]

(***************************************************************************)
(* CampaignCalendar.get_upcoming_events and get_calendar_view.             *)
(***************************************************************************)
UpcomingEvents(evs, clock, days) ==
    SortedByKey(evs, InRange(evs, clock, clock + timedelta_days(days), 1))

\* one line of the calendar view: date-time, platform, title[:40], status
ViewLine(ev) ==
    [date |-> strftime(fromisoformat(ev.scheduled_time)), platform |-> ev.platform,
     title |-> Prefix(ev.title, 40), status |-> ev.status]

CalendarView(evs, start, days) ==
    LET in_range == SortedByKey(evs, InRange(evs, start, start + timedelta_days(days), 1))
    IN  [k \in 1..Len(in_range) |-> ViewLine(evs[in_range[k]])]

(***************************************************************************)
(* CampaignCalendar.export_calendar: asdict and json.dump write each event *)
(* as an object, a list of key/value pairs in field order; json.load reads *)
(* an object back as a dict.                                               *)
(***************************************************************************)
asdict(ev) ==
    <<<<"campaign_id", ev.campaign_id>>, <<"platform", ev.platform>>,
      <<"title", ev.title>>, <<"content", ev.content>>,
      <<"scheduled_time", ev.scheduled_time>>, <<"status", ev.status>>,
      <<"performance_metrics", ev.performance_metrics>>>>

\* an export that counts campaigns, not events, in total_campaigns
ExportedDocument_counts_ids(evs, clock) ==
    <<<<"exported_at", isoformat(clock)>>,
      <<"total_campaigns", Cardinality({evs[k].campaign_id : k \in 1..Len(evs)})>>,
      <<"events", [k \in 1..Len(evs) |-> asdict(evs[k])]>>>>

ExportedDocument(evs, clock) ==
    <<<<"exported_at", isoformat(clock)>>,
      <<"total_campaigns", Len(evs)>>,
      <<"events", [k \in 1..Len(evs) |-> asdict(evs[k])]>>>>

\* json.load of an object: the dict of its pairs (a later pair wins)
LoadObject(pairs) ==
    [key \in {pairs[k][1] : k \in 1..Len(pairs)} |->
        LET last == CHOOSE k \in 1..Len(pairs) :
                        /\ pairs[k][1] = key
                        /\ \A j \in (k + 1)..Len(pairs) : pairs[j][1] # key
        IN  pairs[last][2]]

(***************************************************************************)
(* float: Python's float is IEEE 754 binary64.  A non-negative float is    *)
(* held exactly as [m, e], the number m * 2^e, where m is a natural number *)
(* of at most 53 bits written in base Limb, least significant digit first. *)
(* Every operation computes the exact result and rounds it to 53 bits, to  *)
(* nearest, ties to even, as the hardware does.                            *)
(***************************************************************************)
\* the base in which a mantissa is written: 2^LimbBits
LimbBits == 13

Limb == 8192

\* bits of a binary64 mantissa
MantissaBits == 53

\* the element of a set of one element; an operand named as the set's one
\* member is evaluated once, however often the expression uses it
TheOne(S) == CHOOSE r \in S : TRUE

RECURSIVE BitLength(_)
BitLength(n) == IF n <= 0 THEN 0 ELSE 1 + BitLength(n \div 2)

RECURSIVE Pow2(_)
Pow2(n) == IF n <= 0 THEN 1 ELSE 2 * Pow2(n - 1)

Digit(x, i) == IF i >= 1 /\ i <= Len(x) THEN x[i] ELSE 0

\* without its leading zero digits
RECURSIVE Norm(_)
Norm(x) ==
    IF x = <<>> \/ x[Len(x)] # 0 THEN x ELSE Norm(SubSeq(x, 1, Len(x) - 1))

RECURSIVE BigFromInt(_)
BigFromInt(n) == IF n = 0 THEN <<>> ELSE <<n % Limb>> \o BigFromInt(n \div Limb)

RECURSIVE BigToInt(_)
BigToInt(x) == IF x = <<>> THEN 0 ELSE Head(x) + Limb * BigToInt(Tail(x))

BigBitLength(x) ==
    LET y == Norm(x)
    IN  IF y = <<>> THEN 0 ELSE LimbBits * (Len(y) - 1) + BitLength(y[Len(y)])

\* floor(x / 2^s)
ShiftRight(x, s) ==
    LET ls == s \div LimbBits
        lo == 2^(s % LimbBits)
        hi == 2^(LimbBits - (s % LimbBits))
    IN  [j \in 1..(IF Len(x) > ls THEN Len(x) - ls ELSE 0) |->
            (Digit(x, j + ls) \div lo) + (Digit(x, j + ls + 1) % lo) * hi]

\* x * 2^s
ShiftLeft(x, s) ==
    LET ls == s \div LimbBits
        lo == 2^(s % LimbBits)
        hi == 2^(LimbBits - (s % LimbBits))
    IN  [j \in 1..(Len(x) + ls + 1) |->
            IF j <= ls THEN 0
            ELSE (Digit(x, j - ls) % hi) * lo + (Digit(x, j - ls - 1) \div hi)]

\* bit i of x, bit 0 the least significant
BitAt(x, i) == (Digit(x, (i \div LimbBits) + 1) \div 2^(i % LimbBits)) % 2

\* x is a multiple of 2^s
LowBitsZero(x, s) ==
    /\ \A j \in 1..(s \div LimbBits) : Digit(x, j) = 0
    /\ Digit(x, (s \div LimbBits) + 1) % 2^(s % LimbBits) = 0

RECURSIVE AddFrom(_, _, _, _)
AddFrom(x, y, k, carry) ==
    IF k > Len(x) /\ k > Len(y) /\ carry = 0 THEN <<>>
    ELSE LET s == Digit(x, k) + Digit(y, k) + carry
         IN  <<s % Limb>> \o AddFrom(x, y, k + 1, s \div Limb)

BigAdd(x, y) == AddFrom(x, y, 1, 0)

\* the digit products of column k of a long multiplication
RECURSIVE ColumnSum(_, _, _, _)
ColumnSum(x, y, k, i) ==
    IF i > k \/ i > Len(x) THEN 0
    ELSE x[i] * Digit(y, k + 1 - i) + ColumnSum(x, y, k, i + 1)

RECURSIVE MulFrom(_, _, _, _)
MulFrom(x, y, k, carry) ==
    IF k > Len(x) + Len(y) THEN <<>>
    ELSE LET s == ColumnSum(x, y, k, 1) + carry
         IN  <<s % Limb>> \o MulFrom(x, y, k + 1, s \div Limb)

BigMul(x, y) == MulFrom(x, y, 1, 0)

\* quotient and remainder of rem * 2^k + (the k low bits of digit) by q, for
\* rem < q < 2^30, one bit at a time: no intermediate value reaches 2^31
RECURSIVE LimbDiv(_, _, _, _, _)
LimbDiv(rem, digit, q, k, acc) ==
    IF k = 0 THEN [quot |-> acc, rem |-> rem]
    ELSE TheOne({IF r >= q THEN LimbDiv(r - q, digit, q, k - 1, 2 * acc + 1)
                 ELSE LimbDiv(r, digit, q, k - 1, 2 * acc) :
                 r \in {2 * rem + ((digit \div 2^(k - 1)) % 2)}})

\* quotient and remainder of x by an int q, 0 < q < 2^30; a digit of the
\* quotient is found at once where rem * Limb stays below 2^31
RECURSIVE DivSmall(_, _)
DivSmall(x, q) ==
    IF x = <<>> THEN [quot |-> <<>>, rem |-> 0]
    ELSE TheOne({IF q < 2^(31 - LimbBits)
                 THEN [quot |-> <<(high.rem * Limb + Head(x)) \div q>> \o high.quot,
                       rem |-> (high.rem * Limb + Head(x)) % q]
                 ELSE TheOne({[quot |-> <<cur.quot>> \o high.quot, rem |-> cur.rem] :
                              cur \in {LimbDiv(high.rem, Head(x), q, LimbBits, 0)}}) :
                 high \in {DivSmall(Tail(x), q)}})

\* (x + f) / 2^s to the nearest integer, ties to even, where 0 <= f < 1 and
\* inexact says that f > 0
RoundShift(x, s, inexact) ==
    LET q      == ShiftRight(x, s)
        half   == BitAt(x, s - 1) = 1
        sticky == inexact \/ ~LowBitsZero(x, s - 1)
    IN  IF half /\ (sticky \/ Digit(q, 1) % 2 = 1) THEN BigAdd(q, <<1>>) ELSE q

\* the number of zero bits below the lowest one bit
RECURSIVE LowZeros(_)
LowZeros(n) == IF n % 2 = 1 THEN 0 ELSE 1 + LowZeros(n \div 2)

RECURSIVE TrailingZeros(_)
TrailingZeros(x) ==
    IF Head(x) = 0 THEN LimbBits + TrailingZeros(Tail(x)) ELSE LowZeros(Head(x))

\* the one way a number m * 2^e is held: m odd, and zero as 0 * 2^0, so that
\* equal numbers are equal values
Canonical(m, e) ==
    TheOne({IF y = <<>> THEN [m |-> <<>>, e |-> 0]
            ELSE TheOne({[m |-> Norm(ShiftRight(y, tz)), e |-> e + tz] :
                         tz \in {TrailingZeros(y)}}) : y \in {Norm(m)}})

\* the float nearest (x + f) * 2^e, where 0 <= f < 1 and inexact says that
\* f > 0; an inexact x has more than MantissaBits bits
Rounded(x, e, inexact) ==
    TheOne({LET bits == BigBitLength(y)
            IN  IF bits <= MantissaBits THEN Canonical(y, e)
                ELSE Canonical(RoundShift(y, bits - MantissaBits, inexact),
                               e + (bits - MantissaBits)) : y \in {x}})

\* float(n) of an int n >= 0 below 2^31
Float(n) == TheOne({Canonical(BigFromInt(k), 0) : k \in {n}})

\* p / q of two ints, 0 <= p and 0 < q < 2^30: the float nearest the quotient
TrueDiv(p, q) ==
    TheOne({TheOne({Rounded(d.quot, 0 - s, d.rem # 0) :
                    d \in {DivSmall(ShiftLeft(BigFromInt(p), s), q)}}) :
            s \in {MantissaBits + 2 + BitLength(q)}})

\* the float literal p/q written in decimal, as 0.8 is 8/10
Literal(p, q) == TrueDiv(p, q)

\* a * b
FloatMul(a, b) ==
    TheOne({Rounded(BigMul(p.m, q.m), p.e + q.e, FALSE) : p \in {a}, q \in {b}})

\* a + b
FloatAdd(a, b) ==
    TheOne({LET e == IF p.e < q.e THEN p.e ELSE q.e
            IN  Rounded(BigAdd(ShiftLeft(p.m, p.e - e), ShiftLeft(q.m, q.e - e)), e, FALSE) :
            p \in {a}, q \in {b}})

\* int(a): towards zero
IntOf(a) ==
    TheOne({IF p.e >= 0 THEN BigToInt(ShiftLeft(p.m, p.e))
            ELSE BigToInt(ShiftRight(p.m, 0 - p.e)) : p \in {a}})

(***************************************************************************)
(* random.random(): the generator returns (a * 2^26 + b) / 2^53, where a   *)
(* is a number of 27 bits and b one of 26 bits, both taken from its        *)
(* output.  A draw is the pair <<a, b>>.                                   *)
(***************************************************************************)
DrawFloat(draw) ==
    LET a == draw[1]
        b == draw[2]
    IN  Canonical(<<b % Limb, b \div Limb, a % Limb, (a \div Limb) % Limb,
                    a \div (Limb * Limb)>>, 0 - MantissaBits)

\* the four values random.random() returns first after random.seed(0) and
\* after random.seed(1)
DrawsOfSeed0 ==
    <<<<113336382, 25853374>>, <<101730917, 59743258>>,
      <<56448162, 2716860>>, <<34751217, 64791251>>>>

DrawsOfSeed1 ==
    <<<<18034063, 38198625>>, <<113740630, 53839096>>,
      <<102512094, 4235027>>, <<34234785, 7913390>>>>

\* the least and the greatest value random.random() can return, four times
LeastDraws == <<<<0, 0>>, <<0, 0>>, <<0, 0>>, <<0, 0>>>>

GreatestDraws ==
    <<<<134217727, 67108863>>, <<134217727, 67108863>>,
      <<134217727, 67108863>>, <<134217727, 67108863>>>>

\* draws after which a LinkedIn post has reach 8000 and engagements 142, an
\* engagement rate of 1.775 that lies between two hundredths
HalfwayDraws ==
    <<<<0, 0>>, <<2236962, 8947848>>, <<56448162, 2716860>>, <<34751217, 64791251>>>>

\* the values of the generator the specifications pass to a post
DrawInputs == {DrawsOfSeed0, DrawsOfSeed1, LeastDraws, GreatestDraws, HalfwayDraws}

(***************************************************************************)
(* SocialMediaSimulator.                                                   *)
(***************************************************************************)
\* engagement_rate is held in thousandths
platform_configs ==
    [p \in {"LinkedIn", "Twitter", "Instagram", "Facebook", "TikTok"} |->
        CASE p = "LinkedIn"  -> [base_reach |-> 10000, engagement_rate |-> 25, avg_followers |-> 5000]
          [] p = "Twitter"   -> [base_reach |-> 15000, engagement_rate |-> 35, avg_followers |-> 8000]
          [] p = "Instagram" -> [base_reach |-> 20000, engagement_rate |-> 45, avg_followers |-> 12000]
          [] p = "Facebook"  -> [base_reach |-> 25000, engagement_rate |-> 20, avg_followers |-> 15000]
          [] p = "TikTok"    -> [base_reach |-> 30000, engagement_rate |-> 55, avg_followers |-> 20000]]

\* list(self.platform_configs.keys()): the keys in insertion order
ConfiguredPlatforms == <<"LinkedIn", "Twitter", "Instagram", "Facebook", "TikTok">>

\* int(e * 0.7) in binary64: the double nearest 0.7 is 0.7 - 0.4 * 2^-53, so
\* when 0.7 * e is a whole number K the product lies 0.4 * e * 2^-53 below K,
\* and rounds to K only if that is at most half a unit in the last place
\* of the doubles just below K
IntTimes07(e) ==
    LET K == (7 * e) \div 10
    IN  IF e > 0 /\ e % 10 = 0 /\ 4 * e > 10 * Pow2(BitLength(K - 1) - 1)
        THEN K - 1 ELSE K

\* int(e * 0.2), int(e * 0.1): the doubles nearest 0.2 and 0.1 lie above them
IntTimes02(e) == (2 * e) \div 10

IntTimes01(e) == e \div 10

\* the metrics post_to_platform computes from a profile and the four values
\* random.random() returns, in the order of the calls; engagement_rate is in
\* thousandths and click_share is the float that multiplies the engagements
SimulatedMetrics(base_reach, engagement_rate, click_share, draws) ==
    LET \* int(base_reach * (0.8 + random.random() * 0.4))
        Reach ==
            IntOf(FloatMul(Float(base_reach),
                           FloatAdd(Literal(8, 10),
                                    FloatMul(DrawFloat(draws[1]), Literal(4, 10)))))
        \* int(reach * engagement_rate * (0.7 + random.random() * 0.6))
        Engagements(reach) ==
            IntOf(FloatMul(FloatMul(Float(reach), Literal(engagement_rate, 1000)),
                           FloatAdd(Literal(7, 10),
                                    FloatMul(DrawFloat(draws[2]), Literal(6, 10)))))
        \* int(engagements * 0.2 * (0.5 + random.random()))
        Clicks(engagements) ==
            IntOf(FloatMul(FloatMul(Float(engagements), click_share),
                           FloatAdd(Literal(5, 10), DrawFloat(draws[3]))))
        \* int(clicks * 0.05 * (0.3 + random.random()))
        Conversions(clicks) ==
            IntOf(FloatMul(FloatMul(Float(clicks), Literal(5, 100)),
                           FloatAdd(Literal(3, 10), DrawFloat(draws[4]))))
    IN  TheOne({TheOne({TheOne({
            [reach |-> reach, engagements |-> engagements,
             likes |-> IntTimes07(engagements),
             comments |-> IntTimes02(engagements),
             shares |-> IntTimes01(engagements),
             clicks |-> clicks, conversions |-> Conversions(clicks)] :
                clicks \in {Clicks(engagements)}}) :
                engagements \in {Engagements(reach)}}) :
                reach \in {Reach}})

\* metrics whose default profile, for a platform not in the table, is empty
PostMetrics_no_default(platform, draws) ==
    LET config == Get(platform_configs, platform, EmptyDict)
    IN  SimulatedMetrics(Get(config, "base_reach", 0), Get(config, "engagement_rate", 0),
                         Literal(2, 10), draws)

\* metrics whose clicks are taken at twice the engagements, not at 0.2 of them
PostMetrics_clicks_twice(platform, draws) ==
    LET config == Get(platform_configs, platform, EmptyDict)
    IN  SimulatedMetrics(Get(config, "base_reach", 5000),
                         Get(config, "engagement_rate", 30), Literal(2, 1), draws)

\* the metrics of one post on the platform
PostMetrics(platform, draws) ==
    LET config == Get(platform_configs, platform, EmptyDict)
    IN  SimulatedMetrics(Get(config, "base_reach", 5000),
                         Get(config, "engagement_rate", 30), Literal(2, 10), draws)

\* PostMetrics on the platform names and the values of the generator that the
\* specifications pass, computed once
PostMetricsOf ==
    [p \in {"LinkedIn", "Twitter", "Instagram", "Facebook", "TikTok", "Mastodon"},
     d \in DrawInputs |-> PostMetrics(p, d)]

\* the record post_to_platform builds
PostData(platform, content, scheduled_time, clock, draws) ==
    [post_id |-> <<platform, clock>>, platform |-> platform,
     content_preview |-> Prefix(content, 100), posted_at |-> isoformat(clock),
     scheduled_time |-> scheduled_time, status |-> "live",
     metrics |-> IF <<platform, draws>> \in DOMAIN PostMetricsOf
                 THEN PostMetricsOf[platform, draws]
                 ELSE PostMetrics(platform, draws)]

\* sum(p["metrics"][field] for p in posts)
RECURSIVE SumMetric(_, _)
SumMetric(posts, field) ==
    IF posts = <<>> THEN 0
    ELSE Head(posts).metrics[field] + SumMetric(Tail(posts), field)

\* (n / d * 100) if d > 0 else 0: two float operations, each rounded; the
\* int 0 of the other branch is held as the float 0, which equals it
Ratio100(n, d) == IF d > 0 THEN FloatMul(TrueDiv(n, d), Float(100)) ELSE Float(0)

\* analytics without the early return for a platform that has no posts
get_platform_analytics_no_early_return(history, platform) ==
    LET platform_posts == SelectSeq(history, LAMBDA p : p.platform = platform)
        total_reach       == SumMetric(platform_posts, "reach")
        total_engagements == SumMetric(platform_posts, "engagements")
        total_clicks      == SumMetric(platform_posts, "clicks")
        total_conversions == SumMetric(platform_posts, "conversions")
    IN  [platform |-> platform,
         posts_count |-> Len(platform_posts),
         total_reach |-> total_reach,
         total_engagements |-> total_engagements,
         avg_engagement_rate |-> Ratio100(total_engagements, total_reach),
         total_clicks |-> total_clicks,
         total_conversions |-> total_conversions,
         ctr |-> Ratio100(total_clicks, total_reach),
         conversion_rate |-> Ratio100(total_conversions, total_clicks)]

\* analytics that sum over the whole history, whatever the platform
get_platform_analytics_whole_history(history, platform) ==
    LET platform_posts == history
        total_reach       == SumMetric(platform_posts, "reach")
        total_engagements == SumMetric(platform_posts, "engagements")
        total_clicks      == SumMetric(platform_posts, "clicks")
        total_conversions == SumMetric(platform_posts, "conversions")
    IN  IF platform_posts = <<>>
        THEN [platform |-> platform, posts |-> 0, total_reach |-> 0]
        ELSE [platform |-> platform,
              posts_count |-> Len(platform_posts),
              total_reach |-> total_reach,
              total_engagements |-> total_engagements,
              avg_engagement_rate |-> Ratio100(total_engagements, total_reach),
              total_clicks |-> total_clicks,
              total_conversions |-> total_conversions,
              ctr |-> Ratio100(total_clicks, total_reach),
              conversion_rate |-> Ratio100(total_conversions, total_clicks)]

get_platform_analytics(history, platform) ==
    LET platform_posts == SelectSeq(history, LAMBDA p : p.platform = platform)
        total_reach       == SumMetric(platform_posts, "reach")
        total_engagements == SumMetric(platform_posts, "engagements")
        total_clicks      == SumMetric(platform_posts, "clicks")
        total_conversions == SumMetric(platform_posts, "conversions")
    IN  IF platform_posts = <<>>
        THEN [platform |-> platform, posts |-> 0, total_reach |-> 0]
        ELSE [platform |-> platform,
              posts_count |-> Len(platform_posts),
              total_reach |-> total_reach,
              total_engagements |-> total_engagements,
              avg_engagement_rate |-> Ratio100(total_engagements, total_reach),
              total_clicks |-> total_clicks,
              total_conversions |-> total_conversions,
              ctr |-> Ratio100(total_clicks, total_reach),
              conversion_rate |-> Ratio100(total_conversions, total_clicks)]

\* a dict whose order matters: its keys in the order of their insertion,
\* and the value at each key
OrderedDict(keys, at) == [keys |-> keys, at |-> at]

\* analytics[platform] = ... for each key of platform_configs, in its order
get_all_analytics(history) ==
    OrderedDict(ConfiguredPlatforms,
                [p \in {ConfiguredPlatforms[k] : k \in 1..Len(ConfiguredPlatforms)} |->
                    get_platform_analytics(history, p)])

(***************************************************************************)
(* Inputs of the operations.                                               *)
(***************************************************************************)
CampaignIds == {<<"c", "1">>, <<"c", "2">>}

CampaignTitle == <<"A", "d">>

SomeContent == <<"H", "i">>

\* timestamp texts a caller may pass: "00T0" and "00T1" in the form isoformat
\* writes, "00 1" with a blank separator, "01" a date alone
TimeTexts == {<<48, 48, 84, 48>>, <<48, 48, 84, 49>>, <<48, 48, 32, 49>>, <<48, 49>>}

PlatformLists ==
    {<<>>, <<"LinkedIn">>, <<"Twitter", "LinkedIn">>, <<"LinkedIn", "LinkedIn">>}

\* content_per_platform: Twitter has no content mapped
ContentMap == [p \in {"LinkedIn"} |-> SomeContent]

Frequencies == {"once", "daily", "weekly", "monthly"}

\* values hash() returned in runs of the program: hash('c1') and hash('c2')
\* under PYTHONHASHSEED=0, and a negative hash('c2') under a key drawn at
\* random
HashValues ==
    {Int64(FALSE, <<115, 9142, 2025, 3404, 3837>>),
     Int64(FALSE, <<698, 2374, 3992, 5232, 6465>>),
     Int64(TRUE, <<746, 8384, 9090, 5052, 8468>>)}

\* the campaign ids of the events at the positions, not hashed before
Unhashed(positions) ==
    {events[k].campaign_id : k \in positions} \ DOMAIN hashes

\* the identity of an object constructed now: one no element refers to
NewRef(ids) == Len(ids) + 1

Range(seq) == {seq[k] : k \in 1..Len(seq)}

(***************************************************************************)
(* The operations of CampaignCalendar.                                     *)
(***************************************************************************)
\* time passes between two calls
Tick ==
    /\ now < MaxNow
    /\ now' = now + 1
    /\ UNCHANGED <<events, refs, executed_campaigns, hashes, execution_log, campaigns,
                   frame, use_ai, ret>>

\* an add_event that puts the event at the head of the list
add_event_at_front(event, ref) ==
    /\ events' = <<event>> \o events
    /\ refs' = <<ref>> \o refs
    /\ ret' = [op |-> "add_event"]
    /\ UNCHANGED <<executed_campaigns, now, hashes, execution_log, campaigns, frame, use_ai>>

\* self.events.append(event): event is the value of the object passed and ref
\* its identity
add_event(event, ref) ==
    /\ events' = Append(events, event)
    /\ refs' = Append(refs, ref)
    /\ ret' = [op |-> "add_event"]
    /\ UNCHANGED <<executed_campaigns, now, hashes, execution_log, campaigns, frame, use_ai>>

schedule_campaign_across_platforms(campaign_id, campaign_title, platforms, content_per_platform, start_date, frequency) ==
    LET new == ScheduledEvents(campaign_id, campaign_title, platforms,
                               content_per_platform, start_date, frequency)
    IN  /\ events' = events \o new
        /\ refs' = refs \o [k \in 1..Len(new) |-> NewRef(refs) + (k - 1)]
        /\ ret' = [op |-> "schedule_campaign_across_platforms",
                   campaign_id |-> campaign_id, campaign_title |-> campaign_title,
                   platforms |-> platforms, start_date |-> start_date,
                   frequency |-> frequency,
                   result |-> [k \in 1..Len(new) |-> Len(events) + k]]
        /\ UNCHANGED <<executed_campaigns, now, hashes, execution_log, campaigns, frame, use_ai>>

get_upcoming_events(days) ==
    /\ ret' = [op |-> "get_upcoming_events", days |-> days, clock |-> now,
               result |-> UpcomingEvents(events, now, days)]
    /\ UNCHANGED <<events, refs, executed_campaigns, now, hashes, execution_log, campaigns, frame, use_ai>>

\* the event passed is the object at position i; it is marked wherever the
\* list refers to it.  h is the value of hash(event.campaign_id), should the
\* text not have been hashed before
execute_event(i, h) ==
    LET table == Hashed(hashes, events[i].campaign_id :> h)
    IN  /\ hashes' = table
        /\ events' = [k \in 1..Len(events) |->
                         IF refs[k] = refs[i]
                         THEN Executed(events[k], table[events[k].campaign_id])
                         ELSE events[k]]
        /\ ret' = [op |-> "execute_event", event |-> i]
        /\ UNCHANGED <<refs, executed_campaigns, now, execution_log, campaigns, frame, use_ai>>

\* start is the parsed start_date, or the clock when start_date is None
get_calendar_view(start, days) ==
    /\ ret' = [op |-> "get_calendar_view", start |-> start, days |-> days,
               result |-> CalendarView(events, start, days)]
    /\ UNCHANGED <<events, refs, executed_campaigns, now, hashes, execution_log, campaigns, frame, use_ai>>

export_calendar ==
    /\ ret' = [op |-> "export_calendar", file |-> ExportedDocument(events, now)]
    /\ UNCHANGED <<events, refs, executed_campaigns, now, hashes, execution_log, campaigns, frame, use_ai>>

\* summary[event.platform] = summary.get(event.platform, 0) + 1 over the list
PlatformSummary(evs) ==
    [p \in {evs[k].platform : k \in 1..Len(evs)} |->
        Cardinality({k \in 1..Len(evs) : evs[k].platform = p})]

get_platform_summary ==
    /\ ret' = [op |-> "get_platform_summary", result |-> PlatformSummary(events)]
    /\ UNCHANGED <<events, refs, executed_campaigns, now, hashes, execution_log, campaigns, frame, use_ai>>

(***************************************************************************)
(* The operations of SocialMediaSimulator.                                 *)
(***************************************************************************)
\* draws: the four values random.random() returns during the call
post_to_platform(platform, content, scheduled_time, draws) ==
    LET post_data == PostData(platform, content, scheduled_time, now, draws)
    IN  /\ Len(executed_campaigns) < MaxPosts
        /\ executed_campaigns' = Append(executed_campaigns, post_data)
        /\ ret' = [op |-> "post_to_platform", result |-> post_data]
        /\ UNCHANGED <<events, refs, now, hashes, execution_log, campaigns, frame, use_ai>>

platform_analytics(platform) ==
    /\ ret' = [op |-> "get_platform_analytics", platform |-> platform,
               result |-> get_platform_analytics(executed_campaigns, platform)]
    /\ UNCHANGED <<events, refs, executed_campaigns, now, hashes, execution_log, campaigns, frame, use_ai>>

all_analytics ==
    /\ ret' = [op |-> "get_all_analytics",
               result |-> get_all_analytics(executed_campaigns)]
    /\ UNCHANGED <<events, refs, executed_campaigns, now, hashes, execution_log, campaigns, frame, use_ai>>

(***************************************************************************)
(* CampaignOrchestrator.execute_scheduled_campaigns: every upcoming event  *)
(* is posted to the simulator (simulate_post_execution) and then marked    *)
(* executed.                                                               *)
(***************************************************************************)
\* an execution that posts the first upcoming event only
SimulatedPosts_first_only(evs, upcoming, clock, draws) ==
    [k \in 1..(IF upcoming = <<>> THEN 0 ELSE 1) |->
        PostData(evs[upcoming[k]].platform, evs[upcoming[k]].content,
                 evs[upcoming[k]].scheduled_time, clock, draws[k])]

\* simulate_post_execution for each upcoming event in turn: the k-th post is
\* made from the k-th four values of the generator
SimulatedPosts(evs, upcoming, clock, draws) ==
    [k \in 1..Len(upcoming) |->
        PostData(evs[upcoming[k]].platform, evs[upcoming[k]].content,
                 evs[upcoming[k]].scheduled_time, clock, draws[k])]

\* the events after execute_event on each upcoming event, under the hashes
MarkedExecuted(evs, ids, upcoming, table) ==
    [k \in 1..Len(evs) |->
        IF ids[k] \in {ids[upcoming[j]] : j \in 1..Len(upcoming)}
        THEN Executed(evs[k], table[evs[k].campaign_id])
        ELSE evs[k]]

\* fresh: the hashes of the campaign ids of the upcoming events not hashed
\* before; draws: the values random.random() returns, four to the post
execute_scheduled_campaigns(fresh, draws) ==
    LET upcoming_events == UpcomingEvents(events, now, 7)
        executions      == SimulatedPosts(events, upcoming_events, now, draws)
        table           == Hashed(hashes, fresh)
    IN  IF upcoming_events = <<>>
        THEN /\ ret' = [op |-> "execute_scheduled_campaigns",
                        result |-> [status |-> "no_campaigns"]]
             /\ UNCHANGED <<events, refs, executed_campaigns, now, hashes, execution_log, campaigns, frame, use_ai>>
        ELSE /\ Len(executed_campaigns) + Len(upcoming_events) <= MaxPosts
             /\ executed_campaigns' = executed_campaigns \o executions
             /\ hashes' = table
             /\ events' = MarkedExecuted(events, refs, upcoming_events, table)
             /\ ret' = [op |-> "execute_scheduled_campaigns",
                        result |-> [timestamp |-> isoformat(now),
                                    total_posts_executed |-> Len(upcoming_events),
                                    platforms_covered |->
                                        {events[k].platform : k \in Range(upcoming_events)},
                                    executions |-> executions]]
             /\ UNCHANGED <<refs, now, execution_log, campaigns, frame, use_ai>>

(***************************************************************************)
(* CampaignExecutor (campaign_executor.py): execute_campaign posts the     *)
(* platforms whose content is not empty and logs each post.                *)
(***************************************************************************)
\* the value None of an optional timestamp argument: a text no caller passes
NoTime == <<0>>

\* posts that do not skip a platform without content
RECURSIVE CampaignPosts_posts_empty(_, _, _, _, _)
CampaignPosts_posts_empty(platforms, content_per_platform, start_time, clock, draws) ==
    IF platforms = <<>> THEN <<>>
    ELSE <<PostData(Head(platforms), Get(content_per_platform, Head(platforms), <<>>),
                    start_time, clock, Head(draws))>>
         \o CampaignPosts_posts_empty(Tail(platforms), content_per_platform,
                                      start_time, clock, Tail(draws))

\* execution_result["posts"]: one post for each platform with content, each
\* made from the next four values of the generator
RECURSIVE CampaignPosts(_, _, _, _, _)
CampaignPosts(platforms, content_per_platform, start_time, clock, draws) ==
    IF platforms = <<>> THEN <<>>
    ELSE IF Get(content_per_platform, Head(platforms), <<>>) = <<>>
         THEN CampaignPosts(Tail(platforms), content_per_platform, start_time, clock, draws)
         ELSE <<PostData(Head(platforms), Get(content_per_platform, Head(platforms), <<>>),
                         start_time, clock, Head(draws))>>
              \o CampaignPosts(Tail(platforms), content_per_platform,
                               start_time, clock, Tail(draws))

\* the entries execute_campaign appends to execution_log, one for each post
LogEntries(campaign_id, posts, clock) ==
    [k \in 1..Len(posts) |->
        [campaign_id |-> campaign_id, platform |-> posts[k].platform,
         execution_time |-> isoformat(clock), status |-> "executed"]]

\* a status that is completed as soon as anything was executed
ExecutionStatus_any_campaign(log, campaign_id) ==
    LET campaign_logs == SelectSeq(log, LAMBDA e : e.campaign_id = campaign_id)
    IN  [campaign_id |-> campaign_id, total_platforms |-> Len(campaign_logs),
         executions |-> campaign_logs,
         status |-> IF log # <<>> THEN "completed" ELSE "not_started"]

ExecutionStatus(log, campaign_id) ==
    LET campaign_logs == SelectSeq(log, LAMBDA e : e.campaign_id = campaign_id)
    IN  [campaign_id |-> campaign_id, total_platforms |-> Len(campaign_logs),
         executions |-> campaign_logs,
         status |-> IF campaign_logs # <<>> THEN "completed" ELSE "not_started"]

\* draws: the values random.random() returns, four to the post, for as many
\* posts as there are platforms; a call that posts less draws less
execute_campaign(campaign_id, platforms, content_per_platform, start_time, draws) ==
    LET time  == IF start_time = NoTime THEN isoformat(now) ELSE start_time
        posts == CampaignPosts(platforms, content_per_platform, time, now, draws)
    IN  /\ Len(executed_campaigns) + Len(posts) <= MaxPosts
        /\ executed_campaigns' = executed_campaigns \o posts
        /\ execution_log' = execution_log \o LogEntries(campaign_id, posts, now)
        /\ ret' = [op |-> "execute_campaign", campaign_id |-> campaign_id,
                   platforms |-> platforms, content_per_platform |-> content_per_platform,
                   result |-> [campaign_id |-> campaign_id, started_at |-> isoformat(now),
                               platforms_targeted |-> platforms, posts |-> posts]]
        /\ UNCHANGED <<events, refs, now, hashes, campaigns, frame, use_ai>>

get_execution_status(campaign_id) ==
    /\ ret' = [op |-> "get_execution_status", campaign_id |-> campaign_id,
               result |-> ExecutionStatus(execution_log, campaign_id)]
    /\ UNCHANGED <<events, refs, executed_campaigns, now, hashes, execution_log,
                   campaigns, frame, use_ai>>

(***************************************************************************)
(* PerformanceAnalyzer.generate_performance_report (performance_tracker.py)*)
(* The report is the sequence of its data lines; a line is its section     *)
(* (a platform or OVERALL), its label and its formatted value.             *)
(***************************************************************************)
\* format(n, ","): the decimal groups of three digits, most significant first
RECURSIVE Grouped(_)
Grouped(n) == IF n < 1000 THEN <<n>> ELSE Grouped(n \div 1000) \o <<n % 1000>>

\* format(x, ".2f") of a float x >= 0: the whole part and the two decimals of
\* the hundredth nearest the exact value of x; a value exactly between two
\* hundredths goes to the even one
Fixed2(x) ==
    LET h == IF x.e >= 0 THEN 100 * BigToInt(ShiftLeft(x.m, x.e))
             ELSE BigToInt(Norm(RoundShift(BigMul(x.m, <<100>>), 0 - x.e, FALSE)))
    IN  <<h \div 100, h % 100>>

\* a report that prints the conversion rate of every platform
PlatformLines_always_rate(platform, data) ==
    <<[section |-> platform, label |-> "Posts", value |-> <<Get(data, "posts_count", 0)>>],
      [section |-> platform, label |-> "Total Reach", value |-> Grouped(Get(data, "total_reach", 0))],
      [section |-> platform, label |-> "Engagements", value |-> Grouped(Get(data, "total_engagements", 0))],
      [section |-> platform, label |-> "Engagement Rate", value |-> Fixed2(Get(data, "avg_engagement_rate", Float(0)))],
      [section |-> platform, label |-> "Clicks", value |-> Grouped(Get(data, "total_clicks", 0))],
      [section |-> platform, label |-> "CTR", value |-> Fixed2(Get(data, "ctr", Float(0)))],
      [section |-> platform, label |-> "Conversions", value |-> Grouped(Get(data, "total_conversions", 0))],
      [section |-> platform, label |-> "Conv. Rate", value |-> Fixed2(Get(data, "conversion_rate", Float(0)))]>>

\* the lines of one platform of the mapping
PlatformLines(platform, data) ==
    <<[section |-> platform, label |-> "Posts", value |-> <<Get(data, "posts_count", 0)>>],
      [section |-> platform, label |-> "Total Reach", value |-> Grouped(Get(data, "total_reach", 0))],
      [section |-> platform, label |-> "Engagements", value |-> Grouped(Get(data, "total_engagements", 0))],
      [section |-> platform, label |-> "Engagement Rate", value |-> Fixed2(Get(data, "avg_engagement_rate", Float(0)))],
      [section |-> platform, label |-> "Clicks", value |-> Grouped(Get(data, "total_clicks", 0))],
      [section |-> platform, label |-> "CTR", value |-> Fixed2(Get(data, "ctr", Float(0)))],
      [section |-> platform, label |-> "Conversions", value |-> Grouped(Get(data, "total_conversions", 0))]>>
    \o (IF Get(data, "total_clicks", 0) > 0
        THEN <<[section |-> platform, label |-> "Conv. Rate",
                value |-> Fixed2(Get(data, "conversion_rate", Float(0)))]>>
        ELSE <<>>)

\* analytics.items(): the pairs of a key and its value, every key of the dict
\* in the order of insertion
Items(analytics) ==
    [i \in 1..Len(analytics.keys) |-> <<analytics.keys[i], analytics.at[analytics.keys[i]]>>]

\* sum(data.get(field, 0) for data in analytics.values())
RECURSIVE SumField(_, _)
SumField(items, field) ==
    IF items = <<>> THEN 0
    ELSE Get(Head(items)[2], field, 0) + SumField(Tail(items), field)

\* for platform, data in analytics.items(): the lines of each platform
RECURSIVE AllPlatformLines(_)
AllPlatformLines(items) ==
    IF items = <<>> THEN <<>>
    ELSE PlatformLines(Head(items)[1], Head(items)[2]) \o AllPlatformLines(Tail(items))

GeneratedReport(analytics) ==
    LET total_reach       == SumField(Items(analytics), "total_reach")
        total_engagements == SumField(Items(analytics), "total_engagements")
        total_conversions == SumField(Items(analytics), "total_conversions")
    IN  AllPlatformLines(Items(analytics))
        \o <<[section |-> "OVERALL", label |-> "Total Reach", value |-> Grouped(total_reach)],
             [section |-> "OVERALL", label |-> "Total Engagements", value |-> Grouped(total_engagements)],
             [section |-> "OVERALL", label |-> "Total Conversions", value |-> Grouped(total_conversions)]>>
        \o (IF total_reach > 0
            THEN <<[section |-> "OVERALL", label |-> "Avg Engagement %",
                    value |-> Fixed2(FloatMul(TrueDiv(total_engagements, total_reach),
                                            Float(100)))]>>
            ELSE <<>>)

generate_performance_report(analytics) ==
    /\ ret' = [op |-> "generate_performance_report", analytics |-> analytics,
               result |-> GeneratedReport(analytics)]
    /\ UNCHANGED <<events, refs, executed_campaigns, now, hashes, execution_log,
                   campaigns, frame, use_ai>>

(***************************************************************************)
(* The optional agent capability (performance_tracker.py,                  *)
(* campaign_planner.py).  use_ai is set by the constructor when an api key *)
(* is given and the agent library imports.  What the library does when it  *)
(* is called is the environment's choice: its import fails, building an    *)
(* agent raises, the crew raises, or the crew returns.                     *)
(***************************************************************************)
AgentOutcomes == {"import_error", "agent_error", "kickoff_error", "returns"}

\* _generate_basic_analysis
BasicAnalysis(analytics_data, clock) ==
    [analysis_timestamp |-> isoformat(clock), performance_data |-> analytics_data,
     analysis_type |-> "basic", summary |-> "Campaign performance analysis generated"]

\* an analysis that lets the exception of the agent out
Analysis_propagates(ai, analytics_data, outcome, clock) ==
    IF ~ai THEN BasicAnalysis(analytics_data, clock)
    ELSE IF outcome = "returns"
         THEN [analysis_timestamp |-> isoformat(clock), performance_data |-> analytics_data,
               analysis_result |-> "str(result)"]
         ELSE [exception |-> outcome]

\* analyze_campaign_performance: the agent path runs inside try/except Exception
Analysis(ai, analytics_data, outcome, clock) ==
    IF ~ai THEN BasicAnalysis(analytics_data, clock)
    ELSE IF outcome = "returns"
         THEN [analysis_timestamp |-> isoformat(clock), performance_data |-> analytics_data,
               analysis_result |-> "str(result)"]
         ELSE BasicAnalysis(analytics_data, clock)

analyze_campaign_performance(analytics_data, outcome) ==
    /\ ret' = [op |-> "analyze_campaign_performance", analytics_data |-> analytics_data,
               ai |-> use_ai.analyzer, outcome |-> outcome,
               result |-> Analysis(use_ai.analyzer, analytics_data, outcome, now)]
    /\ UNCHANGED <<events, refs, executed_campaigns, now, hashes, execution_log,
                   campaigns, frame, use_ai>>

(***************************************************************************)
(* Plans: _generate_platform_strategies and _generate_platform_content, as *)
(* CampaignOrchestrator and CampaignPlanner both define them.  A content   *)
(* is the text of the platform's template around the campaign name and the *)
(* audience, a sequence of characters like every text that is sliced or    *)
(* measured.  A character that is not ASCII is written by its code point,  *)
(* "U+1F3AF": one element, as it is one character of the str.              *)
(***************************************************************************)
PlatformDetails ==
    [p \in {"LinkedIn", "Twitter", "Instagram", "Facebook", "TikTok"} |->
        CASE p = "LinkedIn"  -> [frequency |-> "3-4 times per week",
                                 content_type |-> "Articles, thought leadership, company updates",
                                 kpis |-> <<"Impressions", "Engagement rate", "Profile visits">>]
          [] p = "Twitter"   -> [frequency |-> "Daily (1-2 tweets)",
                                 content_type |-> "News, hot takes, conversations, threads",
                                 kpis |-> <<"Retweets", "Likes", "Replies">>]
          [] p = "Instagram" -> [frequency |-> "4-5 times per week",
                                 content_type |-> "Reels, Stories, carousel posts, behind-the-scenes",
                                 kpis |-> <<"Reach", "Saves", "Shares", "Follower growth">>]
          [] p = "Facebook"  -> [frequency |-> "3-4 times per week",
                                 content_type |-> "Community posts, videos, events",
                                 kpis |-> <<"Reach", "Video views", "Engagement">>]
          [] p = "TikTok"    -> [frequency |-> "Daily (2-3 videos)",
                                 content_type |-> "Trends, challenges, educational content",
                                 kpis |-> <<"Views", "Watch time", "Shares">>]]

PlatformStrategies(platforms, goal) ==
    [p \in Range(platforms) |->
        [posting_frequency |-> Get(Get(PlatformDetails, p, EmptyDict), "frequency", "Regular"),
         content_type      |-> Get(Get(PlatformDetails, p, EmptyDict), "content_type", "General"),
         primary_kpis      |-> Get(Get(PlatformDetails, p, EmptyDict), "kpis", <<>>),
         goal_alignment    |-> <<"A", "l", "i", "g", "n", "e", "d", " ",
                                    "w", "i", "t", "h", " ", "'">>
                                  \o goal \o <<"'">>]]

\* the pictographs of the templates as orchestrator.py holds them
OrchestratorSigns ==
    [target |-> <<"U+1F3AF">>,
     rocket |-> <<"U+1F680">>,
     sparkles |-> <<"U+2728">>,
     party |-> <<"U+1F389">>,
     camera |-> <<"U+1F4F8">>,
     megaphone |-> <<"U+1F4E2">>,
     fire |-> <<"U+1F525">>]

\* the characters that campaign_planner.py holds in the place of each
\* pictograph: the bytes of its UTF-8 form, each read as one character
PlannerSigns ==
    [target |-> <<"U+00F0", "U+0178", "U+017D", "U+00AF">>,
     rocket |-> <<"U+00F0", "U+0178", "U+0161", "U+20AC">>,
     sparkles |-> <<"U+00E2", "U+0153", "U+00A8">>,
     party |-> <<"U+00F0", "U+0178", "U+017D", "U+2030">>,
     camera |-> <<"U+00F0", "U+0178", "U+201C", "U+00B8">>,
     megaphone |-> <<"U+00F0", "U+0178", "U+201C", "U+00A2">>,
     fire |-> <<"U+00F0", "U+0178", "U+201D", "U+00A5">>]

\* only the five known platforms get a content
TemplateContent(platforms, campaign_name, audience, sign) ==
    [p \in Range(platforms) \cap Range(ConfiguredPlatforms) |->
        CASE p = "LinkedIn" ->
                sign.target
                \o <<" ">>
                \o campaign_name
                \o <<"\n", "E", "x", "c", "i", "t", "i", "n", "g", " ", "a",
                     "n", "n", "o", "u", "n", "c", "e", "m", "e", "n", "t",
                     " ", "f", "o", "r", " ", "o", "u", "r", " ">>
                \o audience
                \o <<"!", " ", "L", "e", "a", "r", "n", " ", "m", "o", "r",
                     "e", " ", "a", "b", "o", "u", "t", " ", "h", "o", "w",
                     " ", "w", "e", "'", "r", "e", " ", "d", "r", "i", "v",
                     "i", "n", "g", " ", "i", "n", "n", "o", "v", "a", "t",
                     "i", "o", "n", ".", " ", "#", "L", "i", "n", "k", "e",
                     "d", "I", "n", "P", "o", "s", "t">>
          [] p = "Twitter" ->
                sign.rocket
                \o <<" ">>
                \o campaign_name
                \o <<" ", "i", "s", " ", "h", "e", "r", "e", "!", " ", "P",
                     "e", "r", "f", "e", "c", "t", " ", "f", "o", "r", " ">>
                \o audience
                \o <<".", " ", "C", "h", "e", "c", "k", " ", "i", "t", " ",
                     "o", "u", "t", " ", "n", "o", "w", "!", " ", "#", "S",
                     "o", "c", "i", "a", "l", "M", "e", "d", "i", "a", " ",
                     "#", "C", "a", "m", "p", "a", "i", "g", "n">>
          [] p = "Instagram" ->
                sign.sparkles
                \o <<" ">>
                \o campaign_name
                \o <<" ", "i", "s", " ", "l", "i", "v", "e", "!", " ">>
                \o sign.party
                \o <<" ", "D", "e", "s", "i", "g", "n", "e", "d", " ", "f",
                     "o", "r", " ">>
                \o audience
                \o <<" ", "w", "h", "o", " ", "w", "a", "n", "t", " ", "t",
                     "o", " ", "s", "t", "a", "y", " ", "a", "h", "e", "a",
                     "d", ".", " ", "T", "a", "p", " ", "t", "h", "e", " ",
                     "l", "i", "n", "k", " ", "i", "n", " ", "b", "i", "o",
                     "!", " ">>
                \o sign.camera
                \o <<" ", "#", "I", "n", "s", "t", "a", "g", "r", "a", "m",
                     "R", "e", "e", "l", "s">>
          [] p = "Facebook" ->
                sign.megaphone
                \o <<" ", "W", "e", "'", "r", "e", " ", "e", "x", "c", "i",
                     "t", "e", "d", " ", "t", "o", " ", "i", "n", "t", "r",
                     "o", "d", "u", "c", "e", " ">>
                \o campaign_name
                \o <<"!", " ", "C", "r", "e", "a", "t", "e", "d", " ", "s",
                     "p", "e", "c", "i", "f", "i", "c", "a", "l", "l", "y",
                     " ", "f", "o", "r", " ">>
                \o audience
                \o <<".", " ", "J", "o", "i", "n", " ", "o", "u", "r", " ",
                     "c", "o", "m", "m", "u", "n", "i", "t", "y", " ", "a",
                     "n", "d", " ", "d", "i", "s", "c", "o", "v", "e", "r",
                     " ", "m", "o", "r", "e", "!">>
          [] p = "TikTok" ->
                <<"P", "O", "V", ":", " ">>
                \o campaign_name
                \o <<" ", "j", "u", "s", "t", " ", "c", "h", "a", "n", "g",
                     "e", "d", " ", "e", "v", "e", "r", "y", "t", "h", "i",
                     "n", "g", " ", "f", "o", "r", " ">>
                \o audience
                \o <<" ">>
                \o sign.fire
                \o <<" ", "#", "F", "Y", "P", " ", "#", "T", "r", "e", "n",
                     "d", "i", "n", "g", " ", "#", "N", "e", "w", "A", "n",
                     "n", "o", "u", "n", "c", "e", "m", "e", "n", "t">>]

\* CampaignOrchestrator._generate_platform_content
PlatformContent(platforms, campaign_name, audience) ==
    TemplateContent(platforms, campaign_name, audience, OrchestratorSigns)

\* CampaignPlanner._generate_platform_content
PlannerContent(platforms, campaign_name, audience) ==
    TemplateContent(platforms, campaign_name, audience, PlannerSigns)

\* CampaignPlanner._generate_basic_plan
BasicPlan(campaign_name, target_audience, campaign_goal, budget, duration) ==
    [campaign_name |-> campaign_name, target_audience |-> target_audience,
     goal |-> campaign_goal, budget |-> budget, duration |-> duration,
     strategies |-> PlatformStrategies(ConfiguredPlatforms, campaign_goal),
     content |-> PlannerContent(ConfiguredPlatforms, campaign_name, target_audience)]

\* CampaignPlanner.plan_campaign: the agent path runs inside try/except Exception
PlannerPlan(ai, campaign_name, target_audience, campaign_goal, budget, duration, outcome) ==
    IF ~ai THEN BasicPlan(campaign_name, target_audience, campaign_goal, budget, duration)
    ELSE IF outcome = "returns"
         THEN [campaign_name |-> campaign_name, target_audience |-> target_audience,
               goal |-> campaign_goal, budget |-> budget, duration |-> duration,
               planning_result |-> "str(result)"]
         ELSE BasicPlan(campaign_name, target_audience, campaign_goal, budget, duration)

planner_plan_campaign(campaign_name, target_audience, campaign_goal, budget, duration, outcome) ==
    /\ ret' = [op |-> "CampaignPlanner.plan_campaign", campaign_name |-> campaign_name,
               target_audience |-> target_audience, campaign_goal |-> campaign_goal,
               budget |-> budget, duration |-> duration,
               ai |-> use_ai.planner, outcome |-> outcome,
               result |-> PlannerPlan(use_ai.planner, campaign_name, target_audience,
                                      campaign_goal, budget, duration, outcome)]
    /\ UNCHANGED <<events, refs, executed_campaigns, now, hashes, execution_log,
                   campaigns, frame, use_ai>>

(***************************************************************************)
(* CampaignOrchestrator: plan_campaign and schedule_campaigns.             *)
(***************************************************************************)
\* f"camp_{datetime.now().timestamp()}"
CampaignId(clock) == <<"c", "a", "m", "p", "_">> \o Str(clock)

\* d[k] = v
Put(d, k, v) == [x \in DOMAIN d \cup {k} |-> IF x = k THEN v ELSE d[x]]

\* the campaign_plan dict plan_campaign builds from its arguments
CampaignPlan(campaign_name, target_audience, campaign_goal, platforms, budget, duration_days, start_date, clock) ==
    [campaign_id |-> CampaignId(clock), name |-> campaign_name,
     target_audience |-> target_audience, goal |-> campaign_goal,
     platforms |-> platforms, budget |-> budget,
     start_date |-> IF start_date = NoTime THEN isoformat(clock) ELSE start_date,
     duration_days |-> duration_days,
     strategies |-> PlatformStrategies(platforms, campaign_goal),
     content |-> PlatformContent(platforms, campaign_name, target_audience)]

\* the default of the argument duration_days
DefaultDurationDays == 28

plan_campaign(campaign_name, target_audience, campaign_goal, platforms, budget, duration_days, start_date) ==
    LET campaign_plan == CampaignPlan(campaign_name, target_audience, campaign_goal,
                                      platforms, budget, duration_days, start_date, now)
    IN  /\ campaigns' = Put(campaigns, campaign_plan.campaign_id, campaign_plan)
        /\ ret' = [op |-> "plan_campaign", result |-> campaign_plan]
        /\ UNCHANGED <<events, refs, executed_campaigns, now, hashes, execution_log,
                       frame, use_ai>>

\* a lookup that schedules a placeholder post for a campaign it does not know
NewEvents_placeholder(registry, campaign_id, frequency) ==
    IF campaign_id \notin DOMAIN registry
    THEN <<CampaignEvent(campaign_id, "LinkedIn", <<>>, <<>>, isoformat(0),
                         "Scheduled", NoMetrics)>>
    ELSE ScheduledEvents(campaign_id, registry[campaign_id].name,
                         registry[campaign_id].platforms, registry[campaign_id].content,
                         registry[campaign_id].start_date, frequency)

\* the events schedule_campaigns creates: none when self.campaigns.get finds
\* no plan under the id
NewEvents(registry, campaign_id, frequency) ==
    IF campaign_id \notin DOMAIN registry
    THEN <<>>
    ELSE ScheduledEvents(campaign_id, registry[campaign_id].name,
                         registry[campaign_id].platforms, registry[campaign_id].content,
                         registry[campaign_id].start_date, frequency)

schedule_campaigns(campaign_id, frequency) ==
    LET new == NewEvents(campaigns, campaign_id, frequency)
    IN  /\ events' = events \o new
        /\ refs' = refs \o [k \in 1..Len(new) |-> NewRef(refs) + (k - 1)]
        /\ ret' = [op |-> "schedule_campaigns", campaign_id |-> campaign_id,
                   frequency |-> frequency,
                   result |-> [k \in 1..Len(new) |-> Len(events) + k]]
        /\ UNCHANGED <<executed_campaigns, now, hashes, execution_log,
                       campaigns, frame, use_ai>>

(***************************************************************************)
(* CampaignOrchestrator.run_complete_workflow, one action for the call and *)
(* one for each of its steps.  frame holds the position of the call (pc:   *)
(* the step about to run) and the local variables bound so far.  A step    *)
(* returns, or raises at one of its points of output (a print, the open()  *)
(* of the file it writes).  The points lie before the step's changes,      *)
(* after them and, in a step that loops, after each turn of the loop:      *)
(* add_event prints when it has appended its event and execute_event when  *)
(* it has marked its event, so a raise leaves the turns made so far.  An   *)
(* exception leaves the call: the frame is dropped.                        *)
(***************************************************************************)
\* the ways a step of n changes can end: it returns with the n changes made,
\* or raises with the first `done` of them made, for any done from 0 to n
Outcomes(n) ==
    {[raises |-> FALSE, done |-> n]} \cup {[raises |-> TRUE, done |-> k] : k \in 0..n}

\* an order that executes before it renders the calendar view
StepAfter_execute_first(step) ==
    CASE step = "plan"     -> "schedule"
      [] step = "schedule" -> "execute"
      [] step = "execute"  -> "view"
      [] step = "view"     -> "track"
      [] step = "track"    -> "report"
      [] step = "report"   -> "export"
      [] step = "export"   -> "compile"
      [] step = "compile"  -> "done"

\* the statement that follows a step in the body of run_complete_workflow
StepAfter(step) ==
    CASE step = "plan"     -> "schedule"
      [] step = "schedule" -> "view"
      [] step = "view"     -> "execute"
      [] step = "execute"  -> "track"
      [] step = "track"    -> "report"
      [] step = "report"   -> "export"
      [] step = "export"   -> "compile"
      [] step = "compile"  -> "done"

\* a failure after which the call stays where it was and tries the step again
Raise_and_retry(fr) == fr

\* an exception propagates out of the call: no handler in run_complete_workflow
Raise(fr) == [pc |-> "raised", at |-> fr.pc]

\* the frame after a step that binds the local variable to the value
Step(fr, outcome, local, value) ==
    IF ~outcome.raises
    THEN [fr EXCEPT !.pc = StepAfter(fr.pc)] @@ (local :> value)
    ELSE Raise(fr)

\* what the caller of run_complete_workflow has got so far
Caller(fr, outcome) ==
    IF ~outcome.raises THEN ret
    ELSE [op |-> "run_complete_workflow", exception |-> fr.pc]

run_complete_workflow(campaign_name, target_audience, campaign_goal, platforms, budget) ==
    /\ frame.pc \in {"idle", "done", "raised"}
    /\ frame' = [pc |-> "plan", campaign_name |-> campaign_name,
                 target_audience |-> target_audience, campaign_goal |-> campaign_goal,
                 platforms |-> platforms, budget |-> budget]
    /\ ret' = [op |-> "run_complete_workflow"]
    /\ UNCHANGED <<events, refs, executed_campaigns, now, hashes, execution_log,
                   campaigns, use_ai>>

\* Step 1: campaign_plan = self.plan_campaign(...), duration_days and
\* start_date left to their defaults.  The plan is registered between the
\* prints of plan_campaign
workflow_plan(outcome) ==
    LET campaign_plan == CampaignPlan(frame.campaign_name, frame.target_audience,
                                      frame.campaign_goal, frame.platforms,
                                      frame.budget, DefaultDurationDays, NoTime, now)
    IN  /\ frame.pc = "plan"
        /\ campaigns' = IF outcome.done = 0 THEN campaigns
                        ELSE Put(campaigns, campaign_plan.campaign_id, campaign_plan)
        /\ frame' = Step(frame, outcome, "campaign_plan", campaign_plan)
        /\ ret' = Caller(frame, outcome)
        /\ UNCHANGED <<events, refs, executed_campaigns, now, hashes, execution_log, use_ai>>

\* the events Step 2 is about to create
StepEvents == NewEvents(campaigns, frame.campaign_plan.campaign_id, "daily")

\* Step 2: events = self.schedule_campaigns(campaign_plan["campaign_id"], frequency="daily").
\* The first outcome.done events are appended; the call returns them all
workflow_schedule(outcome) ==
    LET added == SubSeq(StepEvents, 1, outcome.done)
    IN  /\ frame.pc = "schedule"
        /\ events' = events \o added
        /\ refs' = refs \o [k \in 1..Len(added) |-> NewRef(refs) + (k - 1)]
        /\ frame' = Step(frame, outcome, "events",
                         [k \in 1..Len(StepEvents) |-> Len(events) + k])
        /\ ret' = Caller(frame, outcome)
        /\ UNCHANGED <<executed_campaigns, now, hashes, execution_log,
                       campaigns, use_ai>>

\* Step 3: calendar_view = self.calendar.get_calendar_view(); print(calendar_view)
workflow_view(outcome) ==
    /\ frame.pc = "view"
    /\ frame' = Step(frame, outcome, "calendar_view", CalendarView(events, now, 7))
    /\ ret' = Caller(frame, outcome)
    /\ UNCHANGED <<events, refs, executed_campaigns, now, hashes, execution_log,
                   campaigns, use_ai>>

\* the hashes of the campaign ids of the events at the positions
HashesOf(fresh, positions) ==
    [c \in {events[k].campaign_id : k \in positions} \cap DOMAIN fresh |-> fresh[c]]

\* Step 4: execution_result = self.execute_scheduled_campaigns().  The first
\* outcome.done upcoming events are posted and marked, each in its turn of
\* the loop
workflow_execute(outcome, fresh, draws) ==
    LET upcoming_events == UpcomingEvents(events, now, 7)
        executed        == SubSeq(upcoming_events, 1, outcome.done)
        executions      == SimulatedPosts(events, executed, now, draws)
        table           == Hashed(hashes, HashesOf(fresh, Range(executed)))
    IN  /\ frame.pc = "execute"
        /\ executed_campaigns' = executed_campaigns \o executions
        /\ hashes' = table
        /\ events' = MarkedExecuted(events, refs, executed, table)
        /\ frame' = Step(frame, outcome, "execution_result",
                         IF upcoming_events = <<>>
                         THEN [status |-> "no_campaigns"]
                         ELSE [timestamp |-> isoformat(now),
                               total_posts_executed |-> Len(upcoming_events),
                               platforms_covered |->
                                   {events[k].platform : k \in Range(upcoming_events)},
                               executions |-> executions])
        /\ ret' = Caller(frame, outcome)
        /\ UNCHANGED <<refs, now, execution_log, campaigns, use_ai>>

\* Step 5: analytics = self.track_performance()
workflow_track(outcome) ==
    /\ frame.pc = "track"
    /\ frame' = Step(frame, outcome, "analytics", get_all_analytics(executed_campaigns))
    /\ ret' = Caller(frame, outcome)
    /\ UNCHANGED <<events, refs, executed_campaigns, now, hashes, execution_log,
                   campaigns, use_ai>>

\* Step 6: report = self.generate_performance_report(), which tracks the
\* performance again, builds the report and saves it
workflow_report(outcome) ==
    /\ frame.pc = "report"
    /\ frame' = Step(frame, outcome, "report",
                     GeneratedReport(get_all_analytics(executed_campaigns)))
    /\ ret' = Caller(frame, outcome)
    /\ UNCHANGED <<events, refs, executed_campaigns, now, hashes, execution_log,
                   campaigns, use_ai>>

\* Step 7: calendar_export_path = self.export_calendar()
workflow_export(outcome) ==
    /\ frame.pc = "export"
    /\ frame' = Step(frame, outcome, "calendar_export_path",
                     [name |-> "campaign_calendar", stamp |-> strftime(now)])
    /\ ret' = Caller(frame, outcome)
    /\ UNCHANGED <<events, refs, executed_campaigns, now, hashes, execution_log,
                   campaigns, use_ai>>

\* the workflow_result the call returns; report_preview, a slice of the
\* characters of the report, is left out
WorkflowResult(fr) ==
    [campaign_id |-> fr.campaign_plan.campaign_id,
     campaign_name |-> fr.campaign_name,
     workflow_status |-> "completed",
     steps_completed |-> <<"Campaign Planning", "Calendar Scheduling", "Campaign Execution",
                           "Performance Tracking", "Report Generation">>,
     stats |-> [total_events_scheduled |-> Len(fr.events),
                platforms_targeted |-> Len(fr.platforms),
                posts_executed |-> Get(fr.execution_result, "total_posts_executed", 0),
                calendar_export |-> fr.calendar_export_path],
     analytics_summary |-> fr.analytics]

\* the result is compiled, the closing banner printed and the result returned
workflow_compile(outcome) ==
    /\ frame.pc = "compile"
    /\ frame' = IF ~outcome.raises THEN [pc |-> StepAfter(frame.pc)] ELSE Raise(frame)
    /\ ret' = IF ~outcome.raises
              THEN [op |-> "run_complete_workflow", result |-> WorkflowResult(frame)]
              ELSE Caller(frame, outcome)
    /\ UNCHANGED <<events, refs, executed_campaigns, now, hashes, execution_log,
                   campaigns, use_ai>>

(***************************************************************************)
(* Specifications.                                                         *)
(***************************************************************************)
\* the orchestrator as constructed without an api key
InitOrchestrator ==
    /\ execution_log = <<>>
    /\ campaigns = EmptyDict
    /\ frame = [pc |-> "idle"]
    /\ use_ai = [analyzer |-> FALSE, planner |-> FALSE]

\* a process that has hashed no text yet
InitCommon ==
    /\ events = <<>>
    /\ refs = <<>>
    /\ executed_campaigns = <<>>
    /\ now = 0
    /\ hashes = EmptyDict
    /\ ret = [op |-> "init"]
    /\ InitOrchestrator

\* the hashes a call that executes the upcoming events may meet
FreshHashes(values) ==
    [Unhashed(Range(UpcomingEvents(events, now, 7))) -> values]

\* the values the generator may return to a call that makes up to n posts
DrawsFor(n, tuples) == [1..n -> tuples]

\* whether a call that adds n events keeps the calendar within MaxEvents
Fits(n) == Len(events) + n <= MaxEvents

(***************************************************************************)
(* Spec: the calendar as the orchestrator and a direct caller drive it.    *)
(***************************************************************************)
Init == InitCommon

Next ==
    \/ Tick
    \/ \E c \in CampaignIds, p \in {"LinkedIn", "Twitter"},
          t \in {<<48, 48, 84, 49>>, <<48, 49>>} :
            /\ Fits(1)
            /\ <<c, p>> # <<<<"c", "2">>, "Twitter">>
            /\ add_event(CampaignEvent(c, p, CampaignTitle, SomeContent, t,
                                       "Scheduled", NoMetrics), NewRef(refs))
    \/ \E i \in 1..Len(events) :
            /\ Fits(1)
            /\ add_event(events[i], refs[i])
    \/ \E c \in CampaignIds, ps \in {<<"LinkedIn">>, <<"Twitter", "LinkedIn">>} :
            /\ Fits(Len(ps))
            /\ schedule_campaign_across_platforms(c, CampaignTitle, ps, ContentMap,
                                                  <<48, 48, 32, 49>>, "once")
    \/ \E i \in 1..Len(events), h \in HashValues : execute_event(i, h)
    \/ \E fresh \in FreshHashes(HashValues),
          draws \in DrawsFor(Len(UpcomingEvents(events, now, 7)), {DrawsOfSeed0}) :
            execute_scheduled_campaigns(fresh, draws)

Spec == Init /\ [][Next]_vars

(***************************************************************************)
(* SpecCaller: the calendar of Spec when the caller also passes add_event  *)
(* events it constructed with a status and with metrics of its own.        *)
(***************************************************************************)
\* status is a str the dataclass does not check
CallerStatuses == {"Scheduled", "Executed", "Delayed"}

\* performance_metrics as a caller passes it: left out, or a dict
CallerMetrics == {NoMetrics, [reach |-> 1]}

NextCaller ==
    \/ Next
    \/ \E st \in CallerStatuses, m \in CallerMetrics :
            /\ Fits(1)
            /\ add_event(CampaignEvent(<<"c", "1">>, "LinkedIn", CampaignTitle, SomeContent,
                                       <<48, 48, 84, 49>>, st, m), NewRef(refs))

SpecCaller == Init /\ [][NextCaller]_vars

(***************************************************************************)
(* SpecSched: scheduling on a calendar that holds at most MaxBefore events.*)
(***************************************************************************)
NextSched ==
    \E c \in CampaignIds, ps \in PlatformLists, t \in {<<48, 48, 32, 49>>, <<48, 49>>},
       f \in Frequencies :
         /\ Len(events) <= MaxBefore
         /\ schedule_campaign_across_platforms(c, CampaignTitle, ps, ContentMap, t, f)

SpecSched == Init /\ [][NextSched]_vars

(***************************************************************************)
(* SpecQuery: the calendar's queries on calendars built by add_event and   *)
(* by scheduling, at every time of the clock.                              *)
(***************************************************************************)
NextQuery ==
    \/ Tick
    \/ \E t \in TimeTexts :
            /\ Fits(1)
            /\ add_event(CampaignEvent(<<"c", "1">>, "LinkedIn", CampaignTitle, SomeContent, t,
                                       "Scheduled", NoMetrics),
                         NewRef(refs))
    \/ \E i \in 1..Len(events) :
            /\ Fits(1)
            /\ add_event(events[i], refs[i])
    \/ \E t \in TimeTexts :
            /\ Fits(1)
            /\ schedule_campaign_across_platforms(<<"c", "2">>, CampaignTitle, <<"Twitter">>,
                                                  ContentMap, t, "once")
    \/ \E i \in 1..Len(events), h \in HashValues : execute_event(i, h)
    \/ \E days \in {0, 1} : get_upcoming_events(days)
    \/ \E t \in {<<>>, <<48, 48, 84, 48>>, <<48, 48, 32, 49>>}, days \in {0, 1} :
            get_calendar_view(IF t = <<>> THEN now ELSE fromisoformat(t), days)
    \/ export_calendar
    \/ get_platform_summary

SpecQuery == Init /\ [][NextQuery]_vars

(***************************************************************************)
(* SpecSim: the simulator alone, whatever the generator returns.           *)
(***************************************************************************)
NextSim ==
    \/ \E p \in Range(ConfiguredPlatforms) \cup {"Mastodon"}, draws \in DrawInputs :
            post_to_platform(p, SomeContent, <<48, 48, 84, 48>>, draws)
    \/ \E p \in {"LinkedIn", "TikTok", "Mastodon"} : platform_analytics(p)
    \/ all_analytics

SpecSim == Init /\ [][NextSim]_vars

(***************************************************************************)
(* SpecExec: the executor of campaign_executor.py on its own.              *)
(***************************************************************************)
\* content_per_platform: Twitter has no content mapped, Instagram an empty one
ContentMapBlank == [p \in {"LinkedIn", "Instagram"} |->
                       IF p = "LinkedIn" THEN SomeContent ELSE <<>>]

NextExec ==
    \/ Tick
    \/ \E c \in CampaignIds,
          ps \in {<<>>, <<"Twitter">>, <<"Twitter", "LinkedIn">>,
                  <<"LinkedIn", "Instagram", "LinkedIn">>},
          m \in {ContentMap, ContentMapBlank, EmptyDict},
          t \in {NoTime, <<48, 49>>} :
            \E draws \in DrawsFor(Len(ps), {DrawsOfSeed0, DrawsOfSeed1}) :
                execute_campaign(c, ps, m, t, draws)
    \/ \E c \in CampaignIds : get_execution_status(c)

SpecExec == Init /\ [][NextExec]_vars

(***************************************************************************)
(* SpecOrch: the operations of the orchestrator, called one after another, *)
(* with the executor it wraps.  Plans are made while the clock leaves time *)
(* for what follows them.                                                  *)
(***************************************************************************)
Audience == <<"d", "e", "v", "s">>

Goal == <<"l", "e", "a", "d", "s">>

Budget == <<"$", "1", "k">>

\* duration_days and start_date as callers pass them: both left out, a start
\* date given, and duration_days=14 as main.py passes it
PlanArguments ==
    {<<DefaultDurationDays, NoTime>>, <<DefaultDurationDays, <<48, 49>>>>, <<14, NoTime>>}

NextOrch ==
    \/ Tick
    \/ \E a \in PlanArguments :
            /\ now + 1 < MaxNow
            /\ plan_campaign(CampaignTitle, Audience, Goal, <<"LinkedIn">>, Budget, a[1], a[2])
    \/ \E c \in {CampaignId(0), CampaignId(1), <<"c", "1">>} :
            /\ Fits(1)
            /\ schedule_campaigns(c, "once")
    \/ \E fresh \in FreshHashes(HashValues),
          draws \in DrawsFor(Len(UpcomingEvents(events, now, 7)), {DrawsOfSeed0}) :
            execute_scheduled_campaigns(fresh, draws)
    \/ execute_campaign(<<"c", "1">>, <<"Twitter", "LinkedIn">>, ContentMap, NoTime,
                        <<DrawsOfSeed0, DrawsOfSeed1>>)

SpecOrch == Init /\ [][NextOrch]_vars

(***************************************************************************)
(* SpecFlow: run_complete_workflow, step by step, the clock advancing      *)
(* between the steps.  A call is made, on no, one or two platforms, while  *)
(* the calendar and the history hold at most MaxFlow entries between them: *)
(* a first call, and calls that follow one that raised early.              *)
(***************************************************************************)
NextFlow ==
    \/ Tick
    \/ \E ps \in {<<>>, <<"LinkedIn">>, <<"Twitter", "Mastodon">>} :
            /\ Len(events) + Len(executed_campaigns) <= MaxFlow
            /\ run_complete_workflow(CampaignTitle, Audience, Goal, ps, Budget)
    \/ \E o \in Outcomes(1) : workflow_plan(o)
    \/ /\ frame.pc = "schedule"
       /\ \E o \in Outcomes(Len(StepEvents)) : workflow_schedule(o)
    \/ \E o \in Outcomes(0) : workflow_view(o)
    \/ \E o \in Outcomes(Len(UpcomingEvents(events, now, 7))),
          fresh \in FreshHashes({Int64(FALSE, <<115, 9142, 2025, 3404, 3837>>)}),
          draws \in DrawsFor(Len(UpcomingEvents(events, now, 7)), {DrawsOfSeed0}) :
            workflow_execute(o, fresh, draws)
    \/ \E o \in Outcomes(0) : workflow_track(o)
    \/ \E o \in Outcomes(0) : workflow_report(o)
    \/ \E o \in Outcomes(0) : workflow_export(o)
    \/ \E o \in Outcomes(0) : workflow_compile(o)

SpecFlow == Init /\ [][NextFlow]_vars

(***************************************************************************)
(* SpecAnalytics: the analytics and the report as functions of the history.*)
(* The history is drawn from the records of HistoryRecords, among them     *)
(* records without reach and without clicks, and grows by posts.           *)
(***************************************************************************)
\* a record of the history with the given metrics
PostRecord(platform, reach, engagements, clicks, conversions) ==
    [post_id |-> <<platform, 0>>, platform |-> platform,
     content_preview |-> SomeContent, posted_at |-> isoformat(0),
     scheduled_time |-> isoformat(0), status |-> "live",
     metrics |-> [reach |-> reach, engagements |-> engagements,
                  likes |-> IntTimes07(engagements),
                  comments |-> IntTimes02(engagements),
                  shares |-> IntTimes01(engagements),
                  clicks |-> clicks, conversions |-> conversions]]

HistoryRecords ==
    {PostRecord(p, m[1], m[2], m[3], m[4]) :
        p \in {"LinkedIn", "TikTok"},
        m \in {<<0, 0, 0, 0>>, <<100, 10, 0, 0>>, <<300, 31, 8, 1>>, <<160, 23, 3, 0>>}}

Histories == UNION {[1..n -> HistoryRecords] : n \in 0..MaxPosts}

\* the analytics of a platform with two posts, and of one with one post
\* and no click
FullRecord(platform) ==
    [platform |-> platform, posts_count |-> 2, total_reach |-> 20010,
     total_engagements |-> 432, avg_engagement_rate |-> Ratio100(432, 20010),
     total_clicks |-> 95, total_conversions |-> 4, ctr |-> Ratio100(95, 20010),
     conversion_rate |-> Ratio100(4, 95)]

NoClickRecord(platform) ==
    [platform |-> platform, posts_count |-> 1, total_reach |-> 24000,
     total_engagements |-> 924, avg_engagement_rate |-> Ratio100(924, 24000),
     total_clicks |-> 0, total_conversions |-> 0, ctr |-> Float(0),
     conversion_rate |-> Float(0)]

\* analytics mappings a caller may pass: with keys left out and with a zero
\* click count, with the keys in another order than platform_configs, and
\* with a key that is no configured platform
SparseAnalytics ==
    {OrderedDict(<<"LinkedIn">>,
                 [p \in {"LinkedIn"} |-> [platform |-> "LinkedIn", total_clicks |-> 5]]),
     OrderedDict(<<"Twitter", "Facebook">>,
                 [p \in {"Twitter", "Facebook"} |->
                     IF p = "Twitter"
                     THEN [platform |-> p, posts_count |-> 1, total_reach |-> 1234567,
                           total_clicks |-> 0, ctr |-> Float(0),
                           conversion_rate |-> Ratio100(7, 3)]
                     ELSE EmptyDict]),
     OrderedDict(<<"TikTok", "LinkedIn">>,
                 [p \in {"TikTok", "LinkedIn"} |->
                     IF p = "TikTok" THEN NoClickRecord(p) ELSE FullRecord(p)]),
     OrderedDict(<<"LinkedIn", "Mastodon">>,
                 [p \in {"LinkedIn", "Mastodon"} |->
                     IF p = "LinkedIn" THEN FullRecord(p) ELSE NoClickRecord(p)])}

InitAnalytics ==
    /\ events = <<>>
    /\ refs = <<>>
    /\ executed_campaigns \in Histories
    /\ now = 0
    /\ hashes = EmptyDict
    /\ ret = [op |-> "init"]
    /\ InitOrchestrator

NextAnalytics ==
    \/ \E draws \in {DrawsOfSeed0, GreatestDraws, HalfwayDraws} :
            post_to_platform("LinkedIn", SomeContent, <<48, 48, 84, 48>>, draws)
    \/ \E p \in {"LinkedIn", "TikTok", "Mastodon"} : platform_analytics(p)
    \/ \E a \in {get_all_analytics(executed_campaigns)} \cup SparseAnalytics :
            generate_performance_report(a)

SpecAnalytics == InitAnalytics /\ [][NextAnalytics]_vars

(***************************************************************************)
(* SpecAgent: the analyzer and the planner, constructed with or without    *)
(* the agent capability, whatever the agent library does when called.      *)
(***************************************************************************)
InitAgent ==
    /\ events = <<>>
    /\ refs = <<>>
    /\ executed_campaigns = <<>>
    /\ now = 0
    /\ hashes = EmptyDict
    /\ ret = [op |-> "init"]
    /\ execution_log = <<>>
    /\ campaigns = EmptyDict
    /\ frame = [pc |-> "idle"]
    /\ use_ai \in [analyzer : BOOLEAN, planner : BOOLEAN]

NextAgent ==
    \/ Tick
    \/ \E p \in {"LinkedIn", "Mastodon"} :
            post_to_platform(p, SomeContent, <<48, 48, 84, 48>>, DrawsOfSeed0)
    \/ \E o \in AgentOutcomes :
            analyze_campaign_performance(get_all_analytics(executed_campaigns), o)
    \/ \E o \in AgentOutcomes, n \in {CampaignTitle, <<>>} :
            planner_plan_campaign(n, Audience, Goal, Budget, <<"4", " ", "w", "e", "e", "k", "s">>, o)

SpecAgent == InitAgent /\ [][NextAgent]_vars

(***************************************************************************)
(* Properties.                                                             *)
(***************************************************************************)
IsScheduleCall(r) == r.op = "schedule_campaign_across_platforms"

DayTag == <<"_", "d", "a", "y">>

WeekTag == <<"_", "w", "e", "e", "k">>

\* the number a one-digit text stands for
DigitValue(c) == CHOOSE d \in 0..9 : Digits[d + 1] = c

Last(seq) == seq[Len(seq)]

\* the event has non-empty metrics if and only if its status is Executed
MetricsIffExecuted(ev) ==
    (DOMAIN ev.performance_metrics # {}) <=> (ev.status = "Executed")

\* C1 as stated: in every reachable state of the calendar, after any
\* sequence of scheduling, add_event, execute_event and
\* execute_scheduled_campaigns calls, an event has a non-empty
\* performance_metrics mapping if and only if its status is Executed.
C1_MetricsIffExecuted ==
    \A i \in 1..Len(events) : MetricsIffExecuted(events[i])

\* C1 amended: every operation keeps the equivalence (non-empty metrics if
\* and only if Executed) for each event of the list that satisfies it; an
\* event that scheduling creates is Scheduled with empty metrics; and an
\* event an operation changes, as execute_event does the event it is given,
\* is Executed with non-empty metrics afterwards.  add_event appends the
\* event as it was constructed.
C1_MetricsIffExecutedKept ==
    [][/\ \A k \in 1..Len(events) :
             /\ k <= Len(events')
             /\ MetricsIffExecuted(events[k]) => MetricsIffExecuted(events'[k])
             /\ events'[k] # events[k] =>
                   /\ events'[k].status = "Executed"
                   /\ DOMAIN events'[k].performance_metrics # {}
       /\ \A k \in (Len(events) + 1)..Len(events') :
             ret'.op # "add_event" =>
                   /\ events'[k].status = "Scheduled"
                   /\ events'[k].performance_metrics = EmptyDict
       /\ (ret' # ret /\ ret'.op = "execute_event") =>
             /\ events'[ret'.event].status = "Executed"
             /\ DOMAIN events'[ret'.event].performance_metrics # {}
       /\ (ret' # ret /\ ret'.op = "add_event") => Len(events') = Len(events) + 1
      ]_vars

\* the orchestrator has executed the upcoming event of a calendar that also
\* holds an event whose time has passed and which the caller constructed
\* with status Executed and no metrics, or with metrics and another status
C1_Witness ==
    /\ ret.op = "execute_scheduled_campaigns"
    /\ \E i, j \in 1..Len(events) :
          /\ events[i].status = "Executed"
          /\ DOMAIN events[i].performance_metrics
                = {"reach", "engagement", "clicks", "conversions"}
          /\ ~MetricsIffExecuted(events[j])

\* C2 as stated: a daily schedule on N platforms returns and appends exactly
\* 7*N events, and the ids of those events are pairwise distinct and of the
\* form <campaign_id>_day{1..7}.
C2_DistinctIds ==
    (IsScheduleCall(ret) /\ ret.frequency = "daily") =>
        /\ Len(ret.result) = 7 * Len(ret.platforms)
        /\ \A k \in 1..Len(ret.result) :
              \E d \in 1..7 :
                  events[ret.result[k]].campaign_id = ret.campaign_id \o DayTag \o Str(d)
        /\ \A j, k \in 1..Len(ret.result) :
              j # k => events[ret.result[j]].campaign_id # events[ret.result[k]].campaign_id

\* C2 amended: a daily schedule on N platforms returns and appends exactly 7*N
\* events, leaving the earlier events in place; the seven events of the n-th
\* platform of the list carry that platform and the ids <campaign_id>_day1 to
\* <campaign_id>_day7 in this order, so each of the seven ids is used once
\* for every platform of the list.
C2_SevenPerPlatform ==
    [][(IsScheduleCall(ret') /\ ret'.frequency = "daily") =>
          LET N == Len(ret'.platforms)
          IN  /\ Len(events') = Len(events) + 7 * N
              /\ SubSeq(events', 1, Len(events)) = events
              /\ ret'.result = [k \in 1..(7 * N) |-> Len(events) + k]
              /\ \A n \in 1..N, d \in 1..7 :
                    LET ev == events'[Len(events) + 7 * (n - 1) + d]
                    IN  /\ ev.platform = ret'.platforms[n]
                        /\ ev.campaign_id = ret'.campaign_id \o DayTag \o Str(d)
      ]_vars

\* a daily schedule on two platforms has added fourteen events to a calendar
\* that held one
C2_Witness ==
    /\ IsScheduleCall(ret)
    /\ ret.frequency = "daily"
    /\ Len(ret.platforms) = 2
    /\ Len(ret.result) = 14
    /\ Len(events) = 15

\* C3: a schedule on N platforms returns and appends exactly 4*N events when
\* the frequency is weekly and exactly N when it is once; every event of a
\* once schedule keeps the campaign id unchanged, is scheduled at start_date
\* and has status Scheduled.
C3_WeeklyAndOnceCounts ==
    [][IsScheduleCall(ret') =>
          LET N == Len(ret'.platforms)
              added == Len(events') - Len(events)
          IN  /\ SubSeq(events', 1, Len(events)) = events
              /\ ret'.result = [k \in 1..added |-> Len(events) + k]
              /\ ret'.frequency = "weekly" => added = 4 * N
              /\ ret'.frequency = "once" =>
                    /\ added = N
                    /\ \A n \in 1..N :
                          LET ev == events'[Len(events) + n]
                          IN  /\ ev.campaign_id = ret'.campaign_id
                              /\ ev.platform = ret'.platforms[n]
                              /\ fromisoformat(ev.scheduled_time)
                                    = fromisoformat(ret'.start_date)
                              /\ ev.status = "Scheduled"
      ]_vars

\* a weekly schedule on two platforms has added eight events to a calendar
\* that held the single event of a once schedule
C3_Witness ==
    /\ IsScheduleCall(ret)
    /\ ret.frequency = "weekly"
    /\ Len(ret.platforms) = 2
    /\ Len(events) = 9
    /\ events[1].campaign_id \in CampaignIds
    /\ events[1].status = "Scheduled"

\* C4: an event created with id suffix _day{i} is scheduled at start_date plus
\* i-1 days and one with id suffix _week{i} at start_date plus i-1 weeks, for
\* every platform; the id suffix, the title suffix and the time offset of an
\* event carry the same index.
C4_SuffixMatchesOffset ==
    IsScheduleCall(ret) =>
        \A k \in 1..Len(ret.result) :
            LET ev == events[ret.result[k]]
                i  == DigitValue(Last(ev.campaign_id))
                start == fromisoformat(ret.start_date)
            IN  /\ ret.frequency = "daily" =>
                      /\ i \in 1..7
                      /\ ev.campaign_id = ret.campaign_id \o DayTag \o Str(i)
                      /\ ev.title = ret.campaign_title \o <<" ", "-", " ", "D", "a", "y", " ">> \o Str(i)
                      /\ fromisoformat(ev.scheduled_time) = start + (i - 1) * Day
                /\ ret.frequency = "weekly" =>
                      /\ i \in 1..4
                      /\ ev.campaign_id = ret.campaign_id \o WeekTag \o Str(i)
                      /\ ev.title = ret.campaign_title \o <<" ", "-", " ", "W", "e", "e", "k", " ">> \o Str(i)
                      /\ fromisoformat(ev.scheduled_time) = start + (i - 1) * 7 * Day

\* a daily schedule on two platforms whose last event is the seventh day of
\* the second platform, six days after a start date given as a date alone
C4_Witness ==
    /\ IsScheduleCall(ret)
    /\ ret.frequency = "daily"
    /\ Len(ret.platforms) = 2
    /\ ret.start_date = <<48, 49>>
    /\ Last(Last(events).campaign_id) = "7"
    /\ fromisoformat(Last(events).scheduled_time) = 7 * Day

\* C5: execute_event sets the status of the event to Executed and attaches
\* non-empty metrics that depend on the campaign id of the event alone: two
\* executed events with the same campaign id hold the same metrics whatever
\* their platform, their content and the history of the simulator; and
\* reach >= 5000, engagement >= 250, clicks >= 50, conversions >= 5.
C5_MetricsByCampaignId ==
    /\ ret.op = "execute_event" =>
          /\ events[ret.event].status = "Executed"
          /\ DOMAIN events[ret.event].performance_metrics # {}
    /\ \A i \in 1..Len(events) :
          events[i].status = "Executed" =>
              LET m == events[i].performance_metrics
              IN  /\ DOMAIN m = {"reach", "engagement", "clicks", "conversions"}
                  /\ m.reach >= 5000
                  /\ m.engagement >= 250
                  /\ m.clicks >= 50
                  /\ m.conversions >= 5
                  /\ \A j \in 1..Len(events) :
                        (events[j].status = "Executed"
                           /\ events[j].campaign_id = events[i].campaign_id)
                        => events[j].performance_metrics = m

\* two events of one campaign id on different platforms, executed with
\* different simulator histories behind them, the id hashing to a negative
\* number
C5_Witness ==
    /\ ret.op = "execute_event"
    /\ Len(executed_campaigns) = 1
    /\ \E i, j \in 1..Len(events) :
          /\ i # j
          /\ ret.event = j
          /\ events[i].campaign_id = events[j].campaign_id
          /\ events[i].platform # events[j].platform
          /\ events[i].status = "Executed"
          /\ events[j].status = "Executed"
          /\ hash(events[i].campaign_id).negative
          /\ PyMod(hash(events[i].campaign_id), 50) # 0

\* the positions of the events scheduled in [lo, hi]
InWindow(lo, hi) ==
    {i \in 1..Len(events) :
        /\ lo <= fromisoformat(events[i].scheduled_time)
        /\ fromisoformat(events[i].scheduled_time) <= hi}

\* C6: get_upcoming_events(days) returns exactly the events whose scheduled
\* time t satisfies now <= t <= now + days, whatever their status, each once,
\* in ascending order of scheduled time.
C6_UpcomingSortedByTime ==
    ret.op = "get_upcoming_events" =>
        LET r == ret.result
        IN  /\ Range(r) = InWindow(ret.clock, ret.clock + ret.days * Day)
            /\ Len(r) = Cardinality(Range(r))
            /\ \A j, k \in 1..Len(r) :
                  j < k => fromisoformat(events[r[j]].scheduled_time)
                             <= fromisoformat(events[r[k]].scheduled_time)

\* whether a line of the calendar view shows the event ev
Shows(line, ev) ==
    /\ fromisoformat(line.date) = fromisoformat(ev.scheduled_time)
    /\ line.platform = ev.platform
    /\ line.title = ev.title
    /\ line.status = ev.status

\* C7: the event lines of get_calendar_view are in non-decreasing order of
\* scheduled time and show exactly the events scheduled in [start, start+days],
\* for any calendar and any arguments.
C7_ViewSortedByTime ==
    ret.op = "get_calendar_view" =>
        LET lines == ret.result
            shown == InWindow(ret.start, ret.start + ret.days * Day)
        IN  /\ Len(lines) = Cardinality(shown)
            /\ \A k \in 1..Len(lines) :
                  Cardinality({j \in 1..Len(lines) : lines[j] = lines[k]})
                    = Cardinality({i \in shown : Shows(lines[k], events[i])})
            /\ \A j, k \in 1..Len(lines) :
                  j < k => fromisoformat(lines[j].date) <= fromisoformat(lines[k].date)

\* C8: reloading the document export_calendar wrote yields the (campaign id,
\* platform, status) triples of the calendar's event list, and total_campaigns
\* is the number of events exported.
C8_ExportRoundTrip ==
    ret.op = "export_calendar" =>
        LET doc == LoadObject(ret.file)
            loaded == [k \in 1..Len(doc["events"]) |-> LoadObject(doc["events"][k])]
        IN  /\ doc["total_campaigns"] = Len(loaded)
            /\ Len(loaded) = Len(events)
            /\ \A k \in 1..Len(events) :
                  /\ loaded[k]["campaign_id"] = events[k].campaign_id
                  /\ loaded[k]["platform"] = events[k].platform
                  /\ loaded[k]["status"] = events[k].status

\* a calendar of two events of one campaign id, one executed and one still
\* scheduled, has been exported
C8_Witness ==
    /\ ret.op = "export_calendar"
    /\ Len(events) = 2
    /\ events[1].campaign_id = events[2].campaign_id
    /\ events[1].status = "Executed"
    /\ events[2].status = "Scheduled"

\* the record get_platform_analytics returns for a platform without history
ZeroRecord(p) == [platform |-> p, posts |-> 0, total_reach |-> 0]

\* C9: with an empty history get_all_analytics returns one entry for each of
\* the five configured platforms, and each entry is the zeroed record (posts 0,
\* total_reach 0) that get_platform_analytics returns for a platform with no
\* history.
C9_EmptyHistoryAnalytics ==
    executed_campaigns = <<>> =>
        /\ ret.op = "get_all_analytics" =>
              /\ ret.result.keys
                    = <<"LinkedIn", "Twitter", "Instagram", "Facebook", "TikTok">>
              /\ DOMAIN ret.result.at = Range(ret.result.keys)
              /\ \A p \in DOMAIN ret.result.at : ret.result.at[p] = ZeroRecord(p)
        /\ ret.op = "get_platform_analytics" => ret.result = ZeroRecord(ret.platform)

\* get_all_analytics has returned on an empty history
C9_Witness ==
    /\ executed_campaigns = <<>>
    /\ ret.op = "get_all_analytics"
    /\ Cardinality(DOMAIN ret.result.at) = 5

\* C10: in every record post_to_platform produced, likes + comments + shares
\* differs from engagements by at most 1.
C10_SplitWithinOne ==
    \A k \in 1..Len(executed_campaigns) :
        LET m == executed_campaigns[k].metrics
            d == m.engagements - (m.likes + m.comments + m.shares)
        IN  -1 <= d /\ d <= 1

\* the base reach of the profile a platform name selects
BaseReachOf(platform) ==
    CASE platform = "LinkedIn"  -> 10000
      [] platform = "Twitter"   -> 15000
      [] platform = "Instagram" -> 20000
      [] platform = "Facebook"  -> 25000
      [] platform = "TikTok"    -> 30000
      [] OTHER                  -> 5000

\* C11: a call of post_to_platform, for any platform name, also one that is
\* not in the profile table, appends exactly one record with status live to
\* the history and returns that record; the reach of the record lies within
\* [0.8, 1.2] times the base reach of the platform, 5000 for an unknown one.
C11_PostAlwaysSucceeds ==
    [][executed_campaigns' # executed_campaigns =>
          /\ ret'.op = "post_to_platform"
          /\ executed_campaigns' = Append(executed_campaigns, ret'.result)
          /\ ret'.result.status = "live"
          /\ 8 * BaseReachOf(ret'.result.platform) <= 10 * ret'.result.metrics.reach
          /\ 10 * ret'.result.metrics.reach <= 12 * BaseReachOf(ret'.result.platform)
      ]_vars

\* a post to a platform that is not in the profile table has been added to a
\* history that held a post already
C11_Witness ==
    /\ ret.op = "post_to_platform"
    /\ ret.result.platform = "Mastodon"
    /\ Len(executed_campaigns) = 2
    /\ Last(executed_campaigns) = ret.result
    /\ ret.result.metrics.reach >= 4000

\* the sum of a metric over the records of the history at the positions S
RECURSIVE SumOver(_, _)
SumOver(S, field) ==
    IF S = {} THEN 0
    ELSE LET k == CHOOSE k \in S : TRUE
         IN  executed_campaigns[k].metrics[field] + SumOver(S \ {k}, field)

\* C12: for a platform with at least one record in the history,
\* get_platform_analytics reports the sums of reach, engagements, clicks and
\* conversions over exactly the records of that platform and their number as
\* the post count; avg_engagement_rate and ctr are 0 when the total reach is
\* 0 and conversion_rate is 0 when the total clicks are 0, so that no
\* quotient has a zero divisor; otherwise each is its quotient times 100.
C12_AnalyticsSums ==
    (/\ ret.op = "get_platform_analytics"
     /\ \E k \in 1..Len(executed_campaigns) : executed_campaigns[k].platform = ret.platform)
    => LET own == {k \in 1..Len(executed_campaigns) :
                      executed_campaigns[k].platform = ret.platform}
           r   == ret.result
       IN  /\ r.posts_count = Cardinality(own)
           /\ r.total_reach = SumOver(own, "reach")
           /\ r.total_engagements = SumOver(own, "engagements")
           /\ r.total_clicks = SumOver(own, "clicks")
           /\ r.total_conversions = SumOver(own, "conversions")
           /\ r.total_reach = 0 => (r.avg_engagement_rate = Float(0) /\ r.ctr = Float(0))
           /\ r.total_clicks = 0 => r.conversion_rate = Float(0)
           /\ r.total_reach > 0 =>
                 /\ r.avg_engagement_rate
                       = FloatMul(TrueDiv(r.total_engagements, r.total_reach), Float(100))
                 /\ r.ctr = FloatMul(TrueDiv(r.total_clicks, r.total_reach), Float(100))
           /\ r.total_clicks > 0 =>
                 r.conversion_rate
                    = FloatMul(TrueDiv(r.total_conversions, r.total_clicks), Float(100))

\* the analytics of a platform whose only record has no reach, asked on a
\* history that also holds a record of another platform
C12_Witness ==
    /\ ret.op = "get_platform_analytics"
    /\ ret.platform = "LinkedIn"
    /\ Len(executed_campaigns) = 2
    /\ \E k \in 1..2 : executed_campaigns[k].platform = "TikTok"
                          /\ executed_campaigns[k].metrics.reach > 0
    /\ "posts_count" \in DOMAIN ret.result
    /\ ret.result.posts_count = 1
    /\ ret.result.total_reach = 0

\* the listed platforms that have a content, in list order
WithContent(platforms, content_per_platform) ==
    SelectSeq(platforms,
              LAMBDA p : p \in DOMAIN content_per_platform /\ content_per_platform[p] # <<>>)

\* C13: execute_campaign creates exactly one record of the history and one
\* entry of the execution log for each listed platform whose mapped content
\* is not empty, in list order, and neither for a platform whose content is
\* missing or empty; the posts it returns are those records.
C13_OnePostPerContent ==
    [][(ret'.op = "execute_campaign"
          /\ (ret' # ret \/ executed_campaigns' # executed_campaigns)) =>
          LET posted == WithContent(ret'.platforms, ret'.content_per_platform)
              posts  == ret'.result.posts
          IN  /\ Len(posts) = Len(posted)
              /\ \A k \in 1..Len(posts) :
                    posts[k].platform = posted[k] /\ posts[k].status = "live"
              /\ executed_campaigns' = executed_campaigns \o posts
              /\ Len(execution_log') = Len(execution_log) + Len(posted)
              /\ SubSeq(execution_log', 1, Len(execution_log)) = execution_log
              /\ \A k \in 1..Len(posted) :
                    LET e == execution_log'[Len(execution_log) + k]
                    IN  /\ e.campaign_id = ret'.campaign_id
                        /\ e.platform = posted[k]
                        /\ e.status = "executed"
      ]_vars

\* a campaign listing a platform twice with content and one with an empty
\* content has been executed: two posts, two log entries
C13_Witness ==
    /\ ret.op = "execute_campaign"
    /\ ret.platforms = <<"LinkedIn", "Instagram", "LinkedIn">>
    /\ ret.content_per_platform = ContentMapBlank
    /\ Len(ret.result.posts) = 2
    /\ Len(execution_log) = 2
    /\ Len(executed_campaigns) = 2

\* the j-th smallest position of the set S
Nth(S, j) == CHOOSE i \in S : Cardinality({x \in S : x < i}) = j - 1

\* C14: get_execution_status(id) returns not_started exactly when the
\* execution log holds no entry for id, and otherwise completed together
\* with exactly the log entries of id, in log order.
C14_StatusFollowsLog ==
    ret.op = "get_execution_status" =>
        LET own == {k \in 1..Len(execution_log) :
                       execution_log[k].campaign_id = ret.campaign_id}
            r   == ret.result
        IN  /\ r.status \in {"not_started", "completed"}
            /\ (r.status = "not_started") <=> (own = {})
            /\ r.total_platforms = Cardinality(own)
            /\ Len(r.executions) = Cardinality(own)
            /\ \A j \in 1..Len(r.executions) :
                  r.executions[j] = execution_log[Nth(own, j)]

\* the status of a campaign without log entries has been asked while the log
\* holds entries of another campaign
C14_Witness ==
    /\ ret.op = "get_execution_status"
    /\ ret.result.status = "not_started"
    /\ Len(execution_log) = 2
    /\ \A k \in 1..2 : execution_log[k].campaign_id # ret.campaign_id

\* C15: after any sequence of executions, those driven by
\* execute_scheduled_campaigns included, the execution log holds as many
\* entries as the simulator history holds records.
C15_LogMatchesHistory ==
    Len(execution_log) = Len(executed_campaigns)

\* C16: run_complete_workflow performs its steps in the order plan creation,
\* scheduling with frequency daily, calendar view, execution of the upcoming
\* events, analytics, report, calendar export, each step starting when the
\* one before it has finished; workflow_status completed is returned only
\* after all of them have run.
C16_WorkflowOrder ==
    [][/\ frame'.pc # frame.pc =>
             \/ <<frame.pc, frame'.pc>> \in
                   {<<"plan", "schedule">>, <<"schedule", "view">>, <<"view", "execute">>,
                    <<"execute", "track">>, <<"track", "report">>, <<"report", "export">>,
                    <<"export", "compile">>, <<"compile", "done">>}
             \/ frame'.pc = "raised"
             \/ frame'.pc = "plan" /\ frame.pc \in {"idle", "done", "raised"}
       /\ (frame.pc = "schedule" /\ frame'.pc = "view") =>
             /\ frame.campaign_plan.campaign_id \in DOMAIN campaigns
             /\ Len(frame'.events) = 7 * Len(frame.platforms)
             /\ Len(events') = Len(events) + 7 * Len(frame.platforms)
       /\ (frame.pc = "execute" /\ frame'.pc = "track") =>
             /\ "calendar_view" \in DOMAIN frame
             /\ Len(executed_campaigns') - Len(executed_campaigns)
                   = Get(frame'.execution_result, "total_posts_executed", 0)
       /\ (ret' # ret /\ "result" \in DOMAIN ret') =>
             /\ ret'.result.workflow_status = "completed"
             /\ frame.pc = "compile"
             /\ {"campaign_plan", "events", "calendar_view", "execution_result",
                 "analytics", "report", "calendar_export_path"} \subseteq DOMAIN frame
      ]_vars

\* a workflow on one platform has returned completed after executing posts
C16_Witness ==
    /\ ret.op = "run_complete_workflow"
    /\ "result" \in DOMAIN ret
    /\ ret.result.workflow_status = "completed"
    /\ ret.result.stats.total_events_scheduled = 7
    /\ ret.result.stats.posts_executed > 0
    /\ frame.pc = "done"

\* C17: schedule_campaigns with a campaign id that is not in the registry
\* returns an empty list and leaves the event list of the calendar, the
\* registry and the simulator history unchanged.
C17_UnknownIdSchedulesNothing ==
    [][(ret'.op = "schedule_campaigns" /\ ret'.campaign_id \notin DOMAIN campaigns) =>
          /\ ret'.result = <<>>
          /\ events' = events
          /\ campaigns' = campaigns
          /\ executed_campaigns' = executed_campaigns
      ]_vars

\* an unknown id has been scheduled on an orchestrator that holds a plan, an
\* event and a post
C17_Witness ==
    /\ ret.op = "schedule_campaigns"
    /\ ret.campaign_id \notin DOMAIN campaigns
    /\ ret.result = <<>>
    /\ DOMAIN campaigns # {}
    /\ events # <<>>
    /\ executed_campaigns # <<>>

\* C18: when a step of run_complete_workflow raises, the call raises in place
\* of returning a result, no later step runs and the step is not tried
\* again, and what the steps before it did (the registered plan, the events
\* appended, the events executed, the records of the simulator) stays.
C18_FailFast ==
    [][/\ (ret' # ret /\ "exception" \in DOMAIN ret') =>
             /\ ret'.exception = frame.pc
             /\ "result" \notin DOMAIN ret'
             /\ frame'.pc = "raised"
             /\ Len(events') >= Len(events)
             /\ \A k \in 1..Len(events) :
                   \/ events'[k] = events[k]
                   \/ events'[k] = Executed(events[k], hashes'[events[k].campaign_id])
             /\ SubSeq(executed_campaigns', 1, Len(executed_campaigns)) = executed_campaigns
             /\ frame.pc # "plan" =>
                   /\ campaigns' = campaigns
                   /\ campaigns[frame.campaign_plan.campaign_id] = frame.campaign_plan
       /\ frame.pc = "raised" =>
             /\ frame'.pc \in {"raised", "plan"}
             /\ events' = events
             /\ executed_campaigns' = executed_campaigns
             /\ campaigns' = campaigns
      ]_vars

\* the execution step has raised part-way, after the plan was registered
\* and the seven events scheduled: three of the upcoming events are posted
\* and Executed, and one that the step had still to post is Scheduled
C18_Witness ==
    /\ frame.pc = "raised"
    /\ frame.at = "execute"
    /\ "exception" \in DOMAIN ret
    /\ DOMAIN campaigns # {}
    /\ Len(events) = 7
    /\ Cardinality({k \in 1..Len(events) : events[k].status = "Executed"}) = 3
    /\ Len(executed_campaigns) = 3
    /\ \E k \in 1..Len(events) :
          /\ events[k].status = "Scheduled"
          /\ now <= fromisoformat(events[k].scheduled_time)

\* C19: when the agent capability fails, by a failing import or by an
\* exception while it runs, analyze_campaign_performance and
\* CampaignPlanner.plan_campaign return the basic result and raise nothing;
\* the basic analysis carries the analytics data it was given unchanged.
C19_AgentFailureFallsBack ==
    /\ (ret.op = "analyze_campaign_performance" /\ (~ret.ai \/ ret.outcome # "returns")) =>
          /\ DOMAIN ret.result
                = {"analysis_timestamp", "performance_data", "analysis_type", "summary"}
          /\ ret.result.analysis_type = "basic"
          /\ ret.result.performance_data = ret.analytics_data
    /\ (ret.op = "CampaignPlanner.plan_campaign" /\ (~ret.ai \/ ret.outcome # "returns")) =>
          /\ DOMAIN ret.result
                = {"campaign_name", "target_audience", "goal", "budget", "duration",
                   "strategies", "content"}
          /\ ret.result.campaign_name = ret.campaign_name
          /\ DOMAIN ret.result.strategies
                = {"LinkedIn", "Twitter", "Instagram", "Facebook", "TikTok"}
          /\ DOMAIN ret.result.content
                = {"LinkedIn", "Twitter", "Instagram", "Facebook", "TikTok"}

\* an analyzer built with the agent capability has analysed the analytics of
\* a history with a post, and the crew raised
C19_Witness ==
    /\ ret.op = "analyze_campaign_performance"
    /\ ret.ai
    /\ ret.outcome = "kickoff_error"
    /\ executed_campaigns # <<>>
    /\ "posts_count" \in DOMAIN ret.analytics_data.at["LinkedIn"]

\* the lines of a report with the given section and label
LinesOf(report, section, label) ==
    {k \in 1..Len(report) : report[k].section = section /\ report[k].label = label}

\* C20: in the report of an analytics mapping, the conversion-rate line of a
\* platform is present exactly when the total_clicks of that platform is
\* greater than 0, the CTR line is present for every platform and reads 0.00
\* when the value is absent or zero, and the overall engagement percentage
\* line is present exactly when the summed reach is greater than 0.
C20_ReportLines ==
    ret.op = "generate_performance_report" =>
        /\ \A p \in Range(ret.analytics.keys) :
              LET data == ret.analytics.at[p]
                  clicks == IF "total_clicks" \in DOMAIN data THEN data.total_clicks ELSE 0
              IN  /\ Cardinality(LinesOf(ret.result, p, "Conv. Rate"))
                        = (IF clicks > 0 THEN 1 ELSE 0)
                  /\ Cardinality(LinesOf(ret.result, p, "CTR")) = 1
                  /\ ("ctr" \notin DOMAIN data \/ data.ctr = Float(0)) =>
                        \A k \in LinesOf(ret.result, p, "CTR") :
                            ret.result[k].value = <<0, 0>>
        /\ Cardinality(LinesOf(ret.result, "OVERALL", "Avg Engagement %"))
              = (IF \E p \in Range(ret.analytics.keys) :
                       "total_reach" \in DOMAIN ret.analytics.at[p]
                          /\ ret.analytics.at[p].total_reach > 0
                 THEN 1 ELSE 0)

\* a report of the analytics of a history in which one platform has clicks
\* and another has reach and no click
C20_Witness ==
    /\ ret.op = "generate_performance_report"
    /\ ret.analytics.keys = <<"LinkedIn", "Twitter", "Instagram", "Facebook", "TikTok">>
    /\ "total_clicks" \in DOMAIN ret.analytics.at["LinkedIn"]
    /\ ret.analytics.at["LinkedIn"].total_clicks = 0
    /\ ret.analytics.at["LinkedIn"].total_reach > 0
    /\ "total_clicks" \in DOMAIN ret.analytics.at["TikTok"]
    /\ ret.analytics.at["TikTok"].total_clicks > 0
    /\ LinesOf(ret.result, "TikTok", "Conv. Rate") # {}
    /\ LinesOf(ret.result, "LinkedIn", "Conv. Rate") = {}

\* the same event object: the fields no operation assigns
SameEvent(e, f) ==
    /\ e.campaign_id = f.campaign_id
    /\ e.platform = f.platform
    /\ e.title = f.title
    /\ e.content = f.content
    /\ e.scheduled_time = f.scheduled_time

CalendarQueries ==
    {"get_upcoming_events", "get_calendar_view", "export_calendar", "get_platform_summary"}

\* C21: the calendar's list is append-only in insertion order: every step
\* keeps each event already in the list at its position (scheduling and
\* add_event append after them, execute_event changes no position), and the
\* queries, which sort a copy, leave the list as it was
C21_AppendOnly ==
    [][/\ Len(events') >= Len(events)
       /\ \A k \in 1..Len(events) : SameEvent(events[k], events'[k])
       /\ ret'.op \in CalendarQueries => events' = events]_vars

\* a range query has answered with the two events of the calendar in the
\* order opposite to the list's, and the list holds an executed event
C21_Witness ==
    /\ ret.op = "get_upcoming_events"
    /\ Len(events) = 2
    /\ ret.result = <<2, 1>>
    /\ events[1].scheduled_time # events[2].scheduled_time
    /\ \E k \in 1..2 : events[k].status = "Executed"

\* C22: a plan is created once and is immutable: every step keeps each
\* entry of the registry as it is, and a step of plan_campaign adds exactly
\* one entry to the registry
C22_PlanImmutable ==
    [][/\ \A id \in DOMAIN campaigns :
             id \in DOMAIN campaigns' /\ campaigns'[id] = campaigns[id]
       /\ campaigns' # campaigns =>
             Cardinality(DOMAIN campaigns') = Cardinality(DOMAIN campaigns) + 1]_vars

\* the events a step takes from another status to Executed
NewlyExecuted == {k \in 1..Len(events) : events[k].status # "Executed"
                                          /\ events'[k].status = "Executed"}

\* C23: each calendar event is posted at most once: a call of
\* execute_scheduled_campaigns adds a record to the history only for the
\* events it takes to Executed, none for an event that was Executed before
C23_PostedAtMostOnce ==
    [][ret'.op = "execute_scheduled_campaigns" =>
         Len(executed_campaigns') - Len(executed_campaigns)
            = Cardinality(NewlyExecuted)]_vars

\* the events whose id is the campaign's id followed by a per-occurrence tag
EventsOf(campaign_id) ==
    {k \in 1..Len(events) :
        /\ Len(events[k].campaign_id) >= Len(campaign_id)
        /\ Prefix(events[k].campaign_id, Len(campaign_id)) = campaign_id}

\* C24: when run_complete_workflow has returned, every event its scheduling
\* step created has been executed by its execution step: the events of the
\* campaign all have status Executed and stats.posts_executed equals
\* stats.total_events_scheduled
C24_AllScheduledExecuted ==
    (ret.op = "run_complete_workflow" /\ "result" \in DOMAIN ret) =>
        /\ ret.result.stats.posts_executed = ret.result.stats.total_events_scheduled
        /\ \A k \in EventsOf(ret.result.campaign_id) : events[k].status = "Executed"

\* C25: event status only moves forward: a step leaves the status of an
\* event as it is or takes it from Scheduled to Executed, an event a step
\* creates in the calendar (an element that refers to no object the list
\* held before) is Scheduled, and no event is Delayed or Cancelled
C25_StatusForward ==
    [][/\ \A k \in 1..Len(events) :
             /\ k <= Len(events')
             /\ \/ events'[k].status = events[k].status
                \/ events[k].status = "Scheduled" /\ events'[k].status = "Executed"
       /\ \A k \in (Len(events) + 1)..Len(events') :
             refs'[k] \notin Range(refs) => events'[k].status = "Scheduled"
       /\ \A k \in 1..Len(events') : events'[k].status \in {"Scheduled", "Executed"}]_vars

\* an event executed before has been executed again, by event or by the
\* orchestrator, next to an event that is still Scheduled
C25_Witness ==
    /\ ret.op \in {"execute_event", "execute_scheduled_campaigns"}
    /\ Len(executed_campaigns) = 2
    /\ \E k \in 1..Len(events) :
          events[k].status = "Executed" /\ events[k].scheduled_time = <<48, 48, 84, 49>>
    /\ \E k \in 1..Len(events) : events[k].status = "Scheduled"

\* C26: every record of the history keeps the funnel order
\* 0 <= conversions <= clicks <= engagements <= reach
C26_FunnelOrder ==
    \A k \in 1..Len(executed_campaigns) :
        LET m == executed_campaigns[k].metrics
        IN  /\ 0 <= m.conversions
            /\ m.conversions <= m.clicks
            /\ m.clicks <= m.engagements
            /\ m.engagements <= m.reach

\* the history holds a post on a platform without a profile and a post on a
\* platform of the table, one of them with conversions and one without
C26_Witness ==
    /\ \E k \in 1..Len(executed_campaigns) :
          /\ executed_campaigns[k].platform = "Mastodon"
          /\ executed_campaigns[k].metrics.conversions = 0
    /\ \E k \in 1..Len(executed_campaigns) :
          /\ executed_campaigns[k].platform = "TikTok"
          /\ executed_campaigns[k].metrics.conversions > 0

\* the events a call of get_upcoming_events(7) finds at the clock's time
Due == {i \in 1..Len(events) :
          /\ now <= fromisoformat(events[i].scheduled_time)
          /\ fromisoformat(events[i].scheduled_time) <= now + timedelta_days(7)}

\* C27: a call of execute_scheduled_campaigns that finds k upcoming events
\* adds k records to the history, reports total_posts_executed = k, leaves
\* those k events Executed and every other event as it was, and adds no
\* event; with k = 0 it answers no_campaigns and changes neither the
\* calendar nor the history.  (A step that keeps the clock and ends with the
\* call's answer is a step of the call: time passing keeps the answer.)
C27_ExecutesWhatItFinds ==
    [][(ret'.op = "execute_scheduled_campaigns" /\ now' = now) =>
         /\ Len(executed_campaigns') = Len(executed_campaigns) + Cardinality(Due)
         /\ SubSeq(executed_campaigns', 1, Len(executed_campaigns)) = executed_campaigns
         /\ Len(events') = Len(events)
         /\ \A i \in 1..Len(events) :
               IF i \in Due
               THEN events'[i].status = "Executed" /\ SameEvent(events[i], events'[i])
               ELSE events'[i] = events[i]
         /\ IF Due = {}
            THEN /\ ret'.result = [status |-> "no_campaigns"]
                 /\ events' = events
                 /\ executed_campaigns' = executed_campaigns
            ELSE ret'.result.total_posts_executed = Cardinality(Due)]_vars

\* a call has found and posted one of the two events of the calendar; the
\* other, whose time has passed, is still Scheduled
C27_Witness ==
    /\ ret.op = "execute_scheduled_campaigns"
    /\ "total_posts_executed" \in DOMAIN ret.result
    /\ ret.result.total_posts_executed = 1
    /\ Len(events) = 2
    /\ \E i \in 1..2 : events[i].status = "Scheduled"
                        /\ fromisoformat(events[i].scheduled_time) < now
    /\ Len(executed_campaigns) = 1

\* C28: every post of the history is counted in the analytics: the post
\* counts of the entries of get_all_analytics sum to the number of records
\* of the history, and their total reach to the reach of all records
C28_AnalyticsCountEveryPost ==
    LET analytics == get_all_analytics(executed_campaigns)
    IN  /\ SumField(Items(analytics), "posts_count")
              + SumField(Items(analytics), "posts")
           = Len(executed_campaigns)
        /\ SumField(Items(analytics), "total_reach")
           = SumMetric(executed_campaigns, "reach")

====
